---- MODULE Spec2Model ----
(***************************************************************************)
(* Cart / order consistency core of the e-commerce repository.             *)
(*                                                                         *)
(* Part I  : the Go backend (gin + gorm): AddToCart, CreateOrder,          *)
(*           GetUserCart, GetUserOrders, GetOrders over the tables items,  *)
(*           carts, cart_items and orders.  Every handler that writes      *)
(*           opens a transaction (Begin), issues its statements one by     *)
(*           one and commits; the handlers take no row lock and compare    *)
(*           no version, and the schema declares no unique index on        *)
(*           carts(user_id) or cart_items(cart_id, item_id).  The database *)
(*           is the SQLite file the program opens: a transaction's writes  *)
(*           are private until Commit and discarded at Rollback; its first *)
(*           read takes the file's SHARED lock, its first write the        *)
(*           RESERVED lock, which one connection holds at a time, and      *)
(*           Commit needs every other connection to have released SHARED.  *)
(*           A statement that cannot get its lock fails (database is       *)
(*           locked), and the handler rolls back.  The requests of         *)
(*           different processes interleave statement by statement.        *)
(*                                                                         *)
(* Part II : the Node backend (express + mongoose) and the SPA checkout:    *)
(*           createOrder, the cart handlers addToCart, getCart, clearCart  *)
(*           and the Cart component's handleCheckout.  MongoDB gives no    *)
(*           transaction here: every awaited or un-awaited save is its own *)
(*           write, and requests interleave at their awaits.               *)
(*                                                                         *)
(* Part III: the cart handlers of the two Node cart implementations, one   *)
(*           request after another: addToCart, updateCartItem and          *)
(*           removeFromCart over the Cart model with subTotal, tax and     *)
(*           total, and addItemToCart, updateCartItem, removeItemFromCart  *)
(*           and updateItem over the Cart model with totalItems and        *)
(*           totalPrice.                                                   *)
(*                                                                         *)
(*           The same part has getCart, clearCart and deleteItem of the    *)
(*           second implementation, and its addItemToCart split at         *)
(*           cart.save() for two requests of one user in flight together.  *)
(*                                                                         *)
(* Part IV : save() of a Cart document of the first implementation, whose  *)
(*           pre('save') hook calls save() again through calculateTotals.  *)
(*                                                                         *)
(* Part V  : the cart the SPA keeps in localStorage for a visitor without  *)
(*           a token: the guest branches of addToCart, updateCartItem and  *)
(*           removeFromCart.                                               *)
(*                                                                         *)
(* Part VI : authentication of the Go backend: CreateUser, Login and       *)
(*           AuthMiddleware over the users table and the JWT.              *)
(*                                                                         *)
(* Part VII: the Order documents of the Node backend: the end of           *)
(*           createOrder, getOrderById, updateOrderToPaid,                 *)
(*           updateOrderToDelivered, updateOrderStatus, getMyOrders and    *)
(*           getOrders with orderSchema.pre('save').                       *)
(*                                                                         *)
(* The Go part counts money in whole currency units, the Node parts in     *)
(* cents.  Spec runs the Go backend, NodeSpec the Node backend with the    *)
(* SPA, CartSpec the Node cart handlers, CheckoutSpec the checkout of      *)
(* either backend with catalog price changes, EmptyCartSpec the Go         *)
(* backend on a database that holds an open cart without lines,            *)
(* CartRaceSpec two addItemToCart requests of one user, SaveSpec the save  *)
(* of Part IV, GuestSpec Part V, AuthSpec Part VI, OrderSpec Part VII, and *)
(* IsolationSpec the Go backend on a database with the rows of a second    *)
(* user together with the order handlers of Part VII.                      *)
(***************************************************************************)
EXTENDS Integers, Sequences, FiniteSets, TLC

\* ------------------------------------------------------------------ bounds
MaxReqs == 3           \* requests served in one behaviour
MaxCatalogOps == 1     \* catalog changes made by catalog administration
MaxNodeReqs == 2       \* addToCart and createOrder requests served in one behaviour

Procs == {1, 2}        \* requests that can be in flight at the same time
Users == {1}           \* registered users
ItemIDs == {1, 2}      \* catalog items that exist
\* a request may also name item 3, which does not exist
ReqItemIDs == {1, 2, 3}
\* quantities a request asks for; binding "min=1" has to reject 0
ReqQtys == {0, 1, 2}
Names == {"n0", "n1"}
Prices == {10, 12}

VARIABLES
    items,        \* table items:      [ItemIDs -> [Name, Price]]
    carts,        \* table carts:      set of rows [ID, UserID, IsCheckedOut]
    cartItems,    \* table cart_items: set of rows [ID, CartID, ItemID, Quantity]
    orders,       \* table orders:     set of rows [ID, UserID, CartID, Total, Status]
    pc,           \* [Procs -> position of the request the process serves]
    loc,          \* [Procs -> the handler's local variables and its transaction]
    resp,         \* the response sent last
    reqs,         \* requests started so far
    catalogOps,   \* catalog changes made so far
    acked,        \* history: [<<cart, item>> -> quantity acknowledged by 200 responses]
    atCheckout,   \* history: [order id -> its lines and total when it was committed]
    closedSince,  \* history: [Users -> a checkout succeeded and no AddToCart since]
    products,     \* collection products: [ProductIDs -> [inventory, price]]
    nodeCarts,    \* collection carts:    [SpaUsers -> the user's cart document]
    nodeOrders,   \* collection orders:   set of [id, user, orderItems]
    nreq,         \* [NodeUsers -> the createOrder request in flight for the user]
    pendingSaves, \* product saves that were started and not awaited
    client,       \* [SpaUsers -> state of the user's Cart component]
    nodeResp,     \* the response the Node backend sent last
    nodeReqs,     \* addToCart and createOrder requests started so far
    itemDocs,     \* collection items:    [StoreItemIDs -> [price, countInStock]]
    cartDoc,      \* the cart document of the user of the second cart implementation
    cartResp,     \* the response the second cart implementation sent last
    cartOps,      \* cart and catalog requests of Part III served so far
    stockLowered, \* history: an item update has lowered a countInStock
    cartReq,      \* [CartReqs -> the addItemToCart request in flight on the connection]
    cartV,        \* the version key __v of the stored cart document
    orderDocs,    \* collection orders of the Node backend: sequence of Order documents
    orderResp,    \* the response an order handler sent last
    users,        \* table users: [AuthNames -> [exists, Password, Token]]
    clock,        \* time.Now() at the last request, in hours
    issued,       \* history: [AuthNames -> the token the last 200 or 201 answer gave]
    authResp,     \* the answer of CreateUser, Login or AuthMiddleware sent last
    authOps,      \* requests to CreateUser, Login and AuthMiddleware so far
    guestCart,    \* localStorage[STORAGE_KEYS.CART] of a browser without a token
    guestResult,  \* how the cart thunk dispatched last ended
    guestOps,     \* cart thunks dispatched so far
    saveRun,      \* a save() of a first-implementation Cart: [pc, depth, cart]
    savedCart,    \* what that save has written to the carts collection
    saveCalls     \* saves called so far

goVars == <<items, carts, cartItems, orders, pc, loc, resp, reqs, catalogOps,
            acked, atCheckout, closedSince>>
nodeVars == <<products, nodeCarts, nodeOrders, nreq, pendingSaves, client, nodeResp,
              nodeReqs>>
storeVars == <<itemDocs, cartDoc, cartResp, cartOps, stockLowered>>
authVars == <<users, clock, issued, authResp, authOps>>
guestVars == <<guestCart, guestResult, guestOps>>
saveVars == <<saveRun, savedCart, saveCalls>>
extVars == <<cartReq, cartV, orderDocs, orderResp, authVars, guestVars, saveVars>>
vars == <<goVars, nodeVars, storeVars, extVars>>

\* ----------------------------------------------------------------- helpers
\* gorm First: ORDER BY primary key LIMIT 1
FirstByID(S) == CHOOSE r \in S : \A q \in S : r.ID <= q.ID

\* rows written by a transaction replace the committed rows with the same key
Upsert(table, rows) == {r \in table : \A w \in rows : w.ID # r.ID} \cup rows

NoCart == [ID |-> 0, UserID |-> 0, IsCheckedOut |-> FALSE]
NoCartItem == [ID |-> 0, CartID |-> 0, ItemID |-> 0, Quantity |-> 0]
EmptyTx == [carts |-> {}, cartItems |-> {}, orders |-> {}]
NoLoc == [user |-> 0, itemID |-> 0, quantity |-> 0, cart |-> NoCart,
          cartItem |-> NoCartItem, found |-> FALSE, lines |-> {}, total |-> 0,
          tx |-> EmptyTx]
NoResp == [status |-> 0, error |-> "", body |-> {}]

Response(status, error) == [NoResp EXCEPT !.status = status, !.error = error]

\* next auto-increment key: larger than every key handed out and still in use
NextID(committed, pending) ==
    LET used == {r.ID : r \in committed \cup UNION {pending[p] : p \in Procs}}
    IN  IF used = {} THEN 1 ELSE 1 + (CHOOSE m \in used : \A k \in used : k <= m)

\* the open carts of all users: the query without its user_id condition
OpenCarts_AnyUser(cs, u) == {c \in cs : ~c.IsCheckedOut}

\* WHERE user_id = ? AND is_checked_out = false
OpenCarts(cs, u) == {c \in cs : c.UserID = u /\ ~c.IsCheckedOut}

\* Preload("CartItems.Item"): the cart's rows joined with the items table as
\* it is at the time of the read.  The list is modelled as a set indexed by
\* the cart_items key.
CartLines(cis, its, cartID) ==
    {[Row |-> ci.ID, ItemID |-> ci.ItemID, Name |-> its[ci.ItemID].Name,
      Price |-> its[ci.ItemID].Price, Quantity |-> ci.Quantity] :
        ci \in {r \in cis : r.CartID = cartID}}

\* total += item.Item.Price * float64(item.Quantity), over the preloaded lines
RECURSIVE LinesTotal(_)
LinesTotal(lines) ==
    IF lines = {} THEN 0
    ELSE LET l == CHOOSE x \in lines : TRUE
         IN  l.Price * l.Quantity + LinesTotal(lines \ {l})

\* usernames; a token is the JWT's claims, username and exp, and whether its
\* signature was made with the server's key
AuthNames == {"a", "b"}
NoToken == [username |-> "", exp |-> 0, signed |-> FALSE]

\* ------------------------------------------------------------------- Init
\* the database with the given rows in the tables carts, cart_items and
\* orders, and no request yet
GoTables(cartRows, cartItemRows, orderRows) ==
    /\ items = [i \in ItemIDs |-> [Name |-> "n0", Price |-> 10]]
    /\ carts = cartRows
    /\ cartItems = cartItemRows
    /\ orders = orderRows
    /\ pc = [p \in Procs |-> "idle"]
    /\ loc = [p \in Procs |-> NoLoc]
    /\ resp = NoResp
    /\ reqs = 0
    /\ catalogOps = 0
    /\ acked = [k \in {} |-> 0]
    /\ atCheckout = [k \in {} |-> 0]
    /\ closedSince = [u \in Users |-> FALSE]
    /\ users = [n \in AuthNames |-> [exists |-> FALSE, Password |-> "", Token |-> NoToken]]
    /\ clock = 0
    /\ issued = [n \in AuthNames |-> NoToken]
    /\ authResp = [status |-> 0, error |-> "", token |-> NoToken]
    /\ authOps = 0

\* the database InitDB creates: every table is empty but items
GoInit == GoTables({}, {}, {})

\* the request of process p is over: its transaction is gone
Finish(p, r) ==
    /\ pc' = [pc EXCEPT ![p] = "idle"]
    /\ loc' = [loc EXCEPT ![p] = NoLoc]
    /\ resp' = r

Start(p) ==
    /\ pc[p] = "idle"
    /\ reqs < MaxReqs
    /\ reqs' = reqs + 1

\* ------------------------------------------------------------ SQLite locks
\* the lock the connection of process p holds on the database file: a
\* transaction has read at least once as soon as its request is past its
\* first step, and has written when its write set is not empty
TxLock(p) ==
    IF pc[p] = "idle" THEN "none"
    ELSE IF loc[p].tx # EmptyTx THEN "reserved"
    ELSE "shared"

\* a write statement of p gets the RESERVED lock
CanReserve(p) == \A q \in Procs \ {p} : TxLock(q) # "reserved"

\* a database whose commit does not wait for the readers
CanCommit_NoWait(p) == TRUE

\* the commit of p gets the EXCLUSIVE lock
CanCommit(p) == \A q \in Procs \ {p} : TxLock(q) = "none"

\* --------------------------------------------------------------- AddToCart
\* the rows each open transaction has inserted and not yet committed
PendingCarts == [p \in Procs |-> loc[p].tx.carts]
PendingCartItems == [p \in Procs |-> loc[p].tx.cartItems]
PendingOrders == [p \in Procs |-> loc[p].tx.orders]

\* ShouldBindJSON: item_id "required" (a zero id is missing), quantity "min=1"
BindAddToCart(itemID, quantity) == itemID >= 1 /\ quantity >= 1

\* ShouldBindJSON, Begin, and the SELECT of FirstOrCreate for the user's open
\* cart
AddToCart_Begin(p, u, itemID, quantity) ==
    /\ Start(p)
    /\ IF ~BindAddToCart(itemID, quantity)
       THEN Finish(p, Response(400, "binding"))
       ELSE \/ LET open == OpenCarts(carts, u)
               IN  /\ pc' = [pc EXCEPT ![p] = IF open # {} THEN "a_item"
                                              ELSE "a_create"]
                   /\ loc' = [loc EXCEPT ![p] =
                         [NoLoc EXCEPT !.user = u, !.itemID = itemID,
                                       !.quantity = quantity,
                                       !.cart = IF open # {} THEN FirstByID(open)
                                                ELSE NoCart]]
                   /\ UNCHANGED resp
            \/ Finish(p, Response(500, "failed to get or create cart"))
    /\ UNCHANGED <<items, carts, cartItems, orders, catalogOps, acked, atCheckout,
                   closedSince>>
    /\ UNCHANGED <<nodeVars, storeVars, extVars>>

\* the INSERT of FirstOrCreate when the SELECT found no open cart
AddToCart_CreateCart(p) ==
    /\ pc[p] = "a_create"
    /\ \/ /\ CanReserve(p)
          /\ LET cart == [ID |-> NextID(carts, PendingCarts),
                          UserID |-> loc[p].user, IsCheckedOut |-> FALSE]
             IN  loc' = [loc EXCEPT ![p].cart = cart, ![p].tx.carts = {cart}]
          /\ pc' = [pc EXCEPT ![p] = "a_item"]
          /\ UNCHANGED resp
       \/ Finish(p, Response(500, "failed to get or create cart"))
    /\ UNCHANGED <<items, carts, cartItems, orders, reqs, catalogOps, acked,
                   atCheckout, closedSince>>
    /\ UNCHANGED <<nodeVars, storeVars, extVars>>

\* the 404 is answered without tx.Rollback(), and what the transaction wrote
\* reaches the tables
AddToCart_Item_NoRollback(p) ==
    /\ pc[p] = "a_item"
    /\ IF loc[p].itemID \in DOMAIN items
       THEN /\ pc' = [pc EXCEPT ![p] = "a_lookup"]
            /\ UNCHANGED <<loc, resp, carts>>
       ELSE /\ Finish(p, Response(404, "item not found"))
            /\ carts' = Upsert(carts, loc[p].tx.carts)
    /\ UNCHANGED <<items, cartItems, orders, reqs, catalogOps, acked,
                   atCheckout, closedSince>>
    /\ UNCHANGED <<nodeVars, storeVars, extVars>>

\* tx.First(&item, req.ItemID): any error rolls back and answers 404
AddToCart_Item(p) ==
    /\ pc[p] = "a_item"
    /\ IF loc[p].itemID \in DOMAIN items
       THEN /\ pc' = [pc EXCEPT ![p] = "a_lookup"]
            /\ UNCHANGED <<loc, resp>>
       ELSE Finish(p, Response(404, "item not found"))
    /\ UNCHANGED <<items, carts, cartItems, orders, reqs, catalogOps, acked,
                   atCheckout, closedSince>>
    /\ UNCHANGED <<nodeVars, storeVars, extVars>>

\* tx.Where("cart_id = ? AND item_id = ?").First(&cartItem)
AddToCart_Lookup(p) ==
    /\ pc[p] = "a_lookup"
    /\ \/ LET rows == {ci \in Upsert(cartItems, loc[p].tx.cartItems) :
                          ci.CartID = loc[p].cart.ID /\ ci.ItemID = loc[p].itemID}
          IN  /\ pc' = [pc EXCEPT ![p] = "a_write"]
              /\ loc' = [loc EXCEPT ![p].found = (rows # {}),
                                    ![p].cartItem = IF rows # {} THEN FirstByID(rows)
                                                    ELSE NoCartItem]
              /\ UNCHANGED resp
       \/ Finish(p, Response(500, "failed to process cart"))
    /\ UNCHANGED <<items, carts, cartItems, orders, reqs, catalogOps, acked,
                   atCheckout, closedSince>>
    /\ UNCHANGED <<nodeVars, storeVars, extVars>>

\* the row AddToCart writes: the row it read with the quantity increased
\* (tx.Save), or a new row (tx.Create)
AddToCart_Row(p) ==
    IF loc[p].found
    THEN [loc[p].cartItem EXCEPT !.Quantity = @ + loc[p].quantity]
    ELSE [ID |-> NextID(cartItems, PendingCartItems), CartID |-> loc[p].cart.ID,
          ItemID |-> loc[p].itemID, Quantity |-> loc[p].quantity]

AddToCart_Write(p) ==
    /\ pc[p] = "a_write"
    /\ \/ /\ CanReserve(p)
          /\ pc' = [pc EXCEPT ![p] = "a_commit"]
          /\ loc' = [loc EXCEPT ![p].tx.cartItems = Upsert(@, {AddToCart_Row(p)})]
          /\ UNCHANGED resp
       \/ Finish(p, Response(500, IF loc[p].found THEN "failed to update cart"
                                  ELSE "failed to add item to cart"))
    /\ UNCHANGED <<items, carts, cartItems, orders, reqs, catalogOps, acked,
                   atCheckout, closedSince>>
    /\ UNCHANGED <<nodeVars, storeVars, extVars>>

\* tx.Commit(): the write set becomes visible at once, or nothing of it does
AddToCart_Commit(p) ==
    /\ pc[p] = "a_commit"
    /\ \/ LET key == <<loc[p].cart.ID, loc[p].itemID>>
              old == IF key \in DOMAIN acked THEN acked[key] ELSE 0
          IN  /\ CanCommit(p)
              /\ carts' = Upsert(carts, loc[p].tx.carts)
              /\ cartItems' = Upsert(cartItems, loc[p].tx.cartItems)
              /\ Finish(p, Response(200, "item added to cart successfully"))
              /\ acked' = [k \in DOMAIN acked \cup {key} |->
                             IF k = key THEN old + loc[p].quantity ELSE acked[k]]
              /\ closedSince' = [closedSince EXCEPT ![loc[p].user] = FALSE]
       \/ /\ Finish(p, Response(500, "failed to update cart"))
          /\ UNCHANGED <<carts, cartItems, acked, closedSince>>
    /\ UNCHANGED <<items, orders, reqs, catalogOps, atCheckout>>
    /\ UNCHANGED <<nodeVars, storeVars, extVars>>

AddToCart(p) ==
    \/ \E u \in Users, i \in ReqItemIDs, q \in ReqQtys : AddToCart_Begin(p, u, i, q)
    \/ AddToCart_CreateCart(p)
    \/ AddToCart_Item(p)
    \/ AddToCart_Lookup(p)
    \/ AddToCart_Write(p)
    \/ AddToCart_Commit(p)

\* -------------------------------------------------------------- CreateOrder
\* Begin; First(&cart) with Preload("CartItems.Item"); the empty-cart check;
\* the total of the preloaded lines
\* the check for an empty cart is missing
CartIsEmpty_Never(lines) == FALSE

\* len(cart.CartItems) == 0
CartIsEmpty(lines) == lines = {}

CreateOrder_Read(p, u) ==
    /\ Start(p)
    /\ \/ LET open == OpenCarts(carts, u)
              cart == FirstByID(open)
              lines == CartLines(cartItems, items, cart.ID)
          IN  IF open = {}
              THEN Finish(p, Response(400, "no active cart found"))
              ELSE IF CartIsEmpty(lines)
              THEN Finish(p, Response(400, "cart is empty"))
              ELSE /\ pc' = [pc EXCEPT ![p] = "o_create"]
                   /\ loc' = [loc EXCEPT ![p] =
                         [NoLoc EXCEPT !.user = u, !.cart = cart, !.lines = lines,
                                       !.total = LinesTotal(lines)]]
                   /\ UNCHANGED resp
       \/ Finish(p, Response(500, "failed to process order"))
    /\ UNCHANGED <<items, carts, cartItems, orders, catalogOps, acked, atCheckout,
                   closedSince>>
    /\ UNCHANGED <<nodeVars, storeVars, extVars>>

\* order := models.Order{...}
NewOrder(p) ==
    [ID |-> NextID(orders, PendingOrders), UserID |-> loc[p].user,
     CartID |-> loc[p].cart.ID, Total |-> loc[p].total, Status |-> "completed"]

\* the insert done outside the transaction: the Order is visible at once and
\* a later Rollback does not remove it
CreateOrder_Create_NoTx(p) ==
    /\ pc[p] = "o_create"
    /\ \/ /\ CanReserve(p)
          /\ pc' = [pc EXCEPT ![p] = "o_save"]
          /\ orders' = Upsert(orders, {NewOrder(p)})
          /\ UNCHANGED <<loc, resp>>
       \/ /\ Finish(p, Response(500, "failed to create order"))
          /\ UNCHANGED orders
    /\ UNCHANGED <<items, carts, cartItems, reqs, catalogOps, acked, atCheckout,
                   closedSince>>
    /\ UNCHANGED <<nodeVars, storeVars, extVars>>

\* tx.Create(&order)
CreateOrder_Create(p) ==
    /\ pc[p] = "o_create"
    /\ \/ /\ CanReserve(p)
          /\ pc' = [pc EXCEPT ![p] = "o_save"]
          /\ loc' = [loc EXCEPT ![p].tx.orders = Upsert(@, {NewOrder(p)})]
          /\ UNCHANGED resp
       \/ Finish(p, Response(500, "failed to create order"))
    /\ UNCHANGED <<items, carts, cartItems, orders, reqs, catalogOps, acked,
                   atCheckout, closedSince>>
    /\ UNCHANGED <<nodeVars, storeVars, extVars>>

\* the cart saved as it was read, still open
CreateOrder_Save_Open(p) ==
    /\ pc[p] = "o_save"
    /\ \/ /\ pc' = [pc EXCEPT ![p] = "o_commit"]
          /\ loc' = [loc EXCEPT ![p].tx.carts = Upsert(@, {loc[p].cart})]
          /\ UNCHANGED resp
       \/ Finish(p, Response(500, "failed to update cart status"))
    /\ UNCHANGED <<items, carts, cartItems, orders, reqs, catalogOps, acked,
                   atCheckout, closedSince>>
    /\ UNCHANGED <<nodeVars, storeVars, extVars>>

\* cart.IsCheckedOut = true; tx.Save(&cart): the row as it was read, closed
CreateOrder_Save(p) ==
    /\ pc[p] = "o_save"
    /\ \/ /\ pc' = [pc EXCEPT ![p] = "o_commit"]
          /\ loc' = [loc EXCEPT ![p].tx.carts =
                        Upsert(@, {[loc[p].cart EXCEPT !.IsCheckedOut = TRUE]})]
          /\ UNCHANGED resp
       \/ Finish(p, Response(500, "failed to update cart status"))
    /\ UNCHANGED <<items, carts, cartItems, orders, reqs, catalogOps, acked,
                   atCheckout, closedSince>>
    /\ UNCHANGED <<nodeVars, storeVars, extVars>>

\* tx.Commit(): the order and the closed cart become visible together
CreateOrder_Commit(p) ==
    /\ pc[p] = "o_commit"
    /\ \/ LET ids == {o.ID : o \in loc[p].tx.orders}
          IN  /\ CanCommit(p)
              /\ orders' = Upsert(orders, loc[p].tx.orders)
              /\ carts' = Upsert(carts, loc[p].tx.carts)
              /\ Finish(p, Response(201, "order created successfully"))
              /\ atCheckout' = [k \in DOMAIN atCheckout \cup ids |->
                                  IF k \in ids
                                  THEN [items |-> CartLines(cartItems, items,
                                                            loc[p].cart.ID),
                                        total |-> loc[p].total]
                                  ELSE atCheckout[k]]
              /\ closedSince' = [closedSince EXCEPT ![loc[p].user] = TRUE]
       \/ /\ Finish(p, Response(500, "failed to process order"))
          /\ UNCHANGED <<orders, carts, atCheckout, closedSince>>
    /\ UNCHANGED <<items, cartItems, reqs, catalogOps, acked>>
    /\ UNCHANGED <<nodeVars, storeVars, extVars>>

CreateOrder(p) ==
    \/ \E u \in Users : CreateOrder_Read(p, u)
    \/ CreateOrder_Create(p)
    \/ CreateOrder_Save(p)
    \/ CreateOrder_Commit(p)

\* ------------------------------------------------------------------- reads
\* the body GetUserCart answers with for user u
GetUserCartBody(u) ==
    LET open == OpenCarts(carts, u)
        cart == FirstByID(open)
        lines == CartLines(cartItems, items, cart.ID)
    IN  IF open = {} THEN [cart_id |-> 0, items |-> {}, total |-> 0]
        ELSE [cart_id |-> cart.ID, items |-> lines, total |-> LinesTotal(lines)]

GetUserCart(p, u) ==
    /\ Start(p)
    /\ pc' = pc
    /\ loc' = loc
    /\ resp' = [status |-> 200, error |-> "", body |-> {GetUserCartBody(u)}]
    /\ UNCHANGED <<items, carts, cartItems, orders, catalogOps, acked, atCheckout,
                   closedSince>>
    /\ UNCHANGED <<nodeVars, storeVars, extVars>>

\* one entry of the "orders" list: the stored total, and the lines of the
\* order's cart joined with the items table as both are now
OrderView(o) ==
    [id |-> o.ID, total |-> o.Total, status |-> o.Status,
     items |-> CartLines(cartItems, items, o.CartID)]

GetUserOrders(p, u) ==
    /\ Start(p)
    /\ pc' = pc
    /\ loc' = loc
    /\ resp' = [status |-> 200, error |-> "",
                body |-> {OrderView(o) : o \in {x \in orders : x.UserID = u}}]
    /\ UNCHANGED <<items, carts, cartItems, orders, catalogOps, acked, atCheckout,
                   closedSince>>
    /\ UNCHANGED <<nodeVars, storeVars, extVars>>

\* the admin list adds the owner to each entry
AdminOrderView(o) ==
    [id |-> o.ID, user_id |-> o.UserID, total |-> o.Total, status |-> o.Status,
     items |-> OrderView(o).items]

GetOrders(p) ==
    /\ Start(p)
    /\ pc' = pc
    /\ loc' = loc
    /\ resp' = [status |-> 200, error |-> "",
                body |-> {AdminOrderView(o) : o \in orders}]
    /\ UNCHANGED <<items, carts, cartItems, orders, catalogOps, acked, atCheckout,
                   closedSince>>
    /\ UNCHANGED <<nodeVars, storeVars, extVars>>

\* ----------------------------------------------------------------- catalog
\* catalog administration edits an item: it gets a new name and a new price;
\* the write is its own transaction
CatalogUpdate(i, name, price) ==
    /\ catalogOps < MaxCatalogOps
    /\ \A p \in Procs : TxLock(p) = "none"
    /\ items[i].Name # name
    /\ items[i].Price # price
    /\ catalogOps' = catalogOps + 1
    /\ items' = [items EXCEPT ![i] = [Name |-> name, Price |-> price]]
    /\ UNCHANGED <<carts, cartItems, orders, pc, loc, resp, reqs, acked, atCheckout,
                   closedSince>>
    /\ UNCHANGED <<nodeVars, storeVars, extVars>>

\* ====================================================================
\* Part II: the Node backend and the SPA checkout
\* ====================================================================
MaxLineQty == 2        \* largest quantity a cart line is allowed to reach

NodeUsers == {1, 2}
SpaUsers == {1}        \* the users who shop through the Cart component
ProductIDs == {1, 2}   \* products that exist
\* a request may also name product 3, which does not exist
ReqProductIDs == {1, 2, 3}
NodeQtys == {1, 2}

\* a line of req.body.orderItems: the caller names product, quantity and price
OrderLine(product, quantity, price) ==
    [product |-> product, quantity |-> quantity, price |-> price]

\* the price a caller of the API puts on its lines: one cent
ApiPrice == 1

\* the orderItems a caller of POST /orders sends: up to two lines, each
\* product at most once; a two-line order starts with one unit of a product
\* that exists
ApiOrderItems ==
    {<<>>}
    \cup {<<OrderLine(a, q, ApiPrice)>> : a \in ReqProductIDs, q \in NodeQtys}
    \cup {<<OrderLine(l[1], 1, ApiPrice), OrderLine(l[2], l[3], ApiPrice)>> :
            l \in {x \in ProductIDs \X ReqProductIDs \X NodeQtys : x[1] # x[2]}}

NoNodeCart == [exists |-> FALSE, items |-> <<>>, subTotal |-> 0, tax |-> 0, total |-> 0]
EmptyNodeCart == [NoNodeCart EXCEPT !.exists = TRUE]
IdleReq == [pc |-> "idle", user |-> 0, orderItems |-> <<>>, docs |-> <<>>,
            dbItems |-> <<>>, spa |-> FALSE]
ClosedClient == [pc |-> "closed", items |-> <<>>, placed |-> FALSE]

\* the products the shop starts with
SeedProducts ==
    [a \in ProductIDs |-> [inventory |-> a, price |-> IF a = 1 THEN 1000 ELSE 2500]]

NodeInit ==
    /\ products = SeedProducts
    /\ nodeCarts = [u \in SpaUsers |-> NoNodeCart]
    /\ nodeOrders = {}
    /\ nreq = [u \in NodeUsers |-> IdleReq]
    /\ pendingSaves = {}
    /\ client = [u \in SpaUsers |-> ClosedClient]
    /\ saveRun = [pc |-> "idle", depth |-> 0, cart |-> NoNodeCart]
    /\ savedCart = NoNodeCart
    /\ saveCalls = 0
    /\ guestCart = [exists |-> FALSE, items |-> <<>>]
    /\ guestResult = ""
    /\ guestOps = 0
    /\ nodeResp = [status |-> 0, message |-> ""]
    /\ nodeReqs = 0

\* ----------------------------------------------------------- Cart model
RECURSIVE SeqSum(_)
SeqSum(q) == IF q = <<>> THEN 0 ELSE Head(q) + SeqSum(Tail(q))

\* parseFloat((x * 0.1).toFixed(2)) on an amount in cents
TaxOf(subTotal) == (subTotal + 5) \div 10

\* pre('save') with modified items: drop the lines with quantity <= 0, then
\* calculateTotals
CartPreSave(cart) ==
    LET kept == SelectSeq(cart.items, LAMBDA l : l.quantity > 0)
        sub == SeqSum([k \in 1..Len(kept) |-> kept[k].price * kept[k].quantity])
    IN  [cart EXCEPT !.items = kept, !.subTotal = sub, !.tax = TaxOf(sub),
                     !.total = sub + TaxOf(sub)]

\* the validation save() runs before the pre('save') hooks: quantity has
\* min 1 on every line
CartValid(cartItems_) == \A k \in 1..Len(cartItems_) : cartItems_[k].quantity >= 1

\* what a rejected save reports: the validation error, or the database's
SaveError(cartItems_) ==
    IF CartValid(cartItems_) THEN "save failed" ELSE "Quantity must be at least 1"

LineIndex(cartItems_, productId) ==
    IF \E k \in 1..Len(cartItems_) : cartItems_[k].product = productId
    THEN CHOOSE k \in 1..Len(cartItems_) :
            /\ cartItems_[k].product = productId
            /\ \A j \in 1..(k - 1) : cartItems_[j].product # productId
    ELSE 0

\* cart handler addToCart: Product.findById, Cart.findOne or Cart.create, the
\* line is incremented or pushed, cart.save, cart.calculateTotals.  quantity
\* is an integer, which parseInt returns as it is.
NodeAddToCart(u, productId, quantity) ==
    /\ nodeReqs < MaxNodeReqs
    /\ nodeReqs' = nodeReqs + 1
    /\ IF productId \notin DOMAIN products
       THEN /\ nodeResp' = [status |-> 404, message |-> "Product not found"]
            /\ UNCHANGED nodeCarts
       ELSE LET cart == IF nodeCarts[u].exists THEN nodeCarts[u] ELSE EmptyNodeCart
                k == LineIndex(cart.items, productId)
                newItems ==
                    IF k > 0
                    THEN [cart.items EXCEPT ![k].quantity = @ + quantity]
                    ELSE Append(cart.items, [product |-> productId,
                                             quantity |-> quantity,
                                             price |-> products[productId].price])
            IN  /\ \A j \in 1..Len(newItems) : newItems[j].quantity <= MaxLineQty
                /\ \/ /\ CartValid(newItems)
                      /\ nodeCarts' = [nodeCarts EXCEPT ![u] =
                                         CartPreSave([cart EXCEPT !.items = newItems])]
                      /\ nodeResp' = [status |-> 200, message |-> ""]
                   \/ \* a save is rejected: what Cart.create stored stays
                      /\ nodeCarts' \in {nodeCarts, [nodeCarts EXCEPT ![u] = cart]}
                      /\ nodeResp' = [status |-> 500, message |-> SaveError(newItems)]
    /\ UNCHANGED <<products, nodeOrders, nreq, pendingSaves, client>>
    /\ UNCHANGED <<goVars, storeVars, extVars>>

\* the lines the Cart component keeps: productId, quantity, price
ClientLines(cart) ==
    [k \in 1..Len(cart.items) |->
        [productId |-> cart.items[k].product, quantity |-> cart.items[k].quantity,
         price |-> cart.items[k].price]]

\* the Cart component mounts: fetchCart calls GET /cart (getCart creates the
\* cart when the user has none) and keeps the answer as its state.  The
\* component is given the cart's lines under the names handleCheckout reads
\* (cart.items[k].productId, quantity, price); the handler itself answers
\* with the document wrapped as {success, data} and names the field product.
Mount(u) ==
    /\ client[u].pc = "closed"
    /\ \/ LET cart == IF nodeCarts[u].exists THEN nodeCarts[u] ELSE EmptyNodeCart
          IN  /\ nodeCarts' = [nodeCarts EXCEPT ![u] = cart]
              /\ client' = [client EXCEPT ![u] =
                              [pc |-> "ready", items |-> ClientLines(cart),
                               placed |-> FALSE]]
              /\ nodeResp' = [status |-> 200, message |-> ""]
       \/ \* 'Failed to load cart': the component shows the error only
          /\ nodeResp' = [status |-> 500, message |-> "Failed to load cart"]
          /\ UNCHANGED <<nodeCarts, client>>
    /\ UNCHANGED <<products, nodeOrders, nreq, pendingSaves, nodeReqs>>
    /\ UNCHANGED <<goVars, storeVars, extVars>>

\* ------------------------------------------------------------ createOrder
\* the answer of createOrder reaches its caller; the Cart component goes on
\* to clearCart after a success and back to its idle state after a failure
Respond(r, status, message) ==
    /\ nreq' = [nreq EXCEPT ![r] = IdleReq]
    /\ nodeResp' = [status |-> status, message |-> message]
    /\ LET u == nreq[r].user
       IN  IF nreq[r].spa /\ u \in SpaUsers /\ client[u].pc = "ordering"
           THEN client' = [client EXCEPT ![u].pc = IF status = 201 THEN "clearing"
                                                    ELSE "ready",
                                          ![u].placed = (status = 201)]
           ELSE UNCHANGED client

\* Product.find({_id: {$in: ...}}): the products of the request that exist
FindProducts(orderItems) ==
    [a \in {orderItems[k].product : k \in 1..Len(orderItems)} \cap DOMAIN products |->
        products[a]]

\* the request starts: the empty-list check and the awaited Product.find
createOrder_Find(u, orderItems, spa) ==
    /\ nreq[u].pc = "idle"
    /\ nodeReqs < MaxNodeReqs
    /\ nodeReqs' = nodeReqs + 1
    /\ IF Len(orderItems) = 0
       THEN /\ nreq' = nreq
            /\ nodeResp' = [status |-> 400, message |-> "No order items"]
       ELSE \/ /\ nreq' = [nreq EXCEPT ![u] =
                            [pc |-> "map", user |-> u, orderItems |-> orderItems,
                             docs |-> FindProducts(orderItems), dbItems |-> <<>>,
                             spa |-> spa]]
               /\ UNCHANGED nodeResp
            \/ /\ nreq' = nreq
               /\ nodeResp' = [status |-> 500, message |-> "find failed"]

\* orderItems.map(...): for each line in turn the product must exist and have
\* enough inventory; the inventory of the loaded document is lowered and
\* matchingItem.save() is called without being awaited.  A throw leaves the
\* saves that were already started.
\* price: itemFromClient.price, the price the caller sent
OrderLinePrice_FromClient(itemFromClient, matchingItem) == itemFromClient.price

\* price: matchingItem.price, the price of the product document just loaded
OrderLinePrice(itemFromClient, matchingItem) == matchingItem.price

RECURSIVE MapOrderItems(_, _, _, _, _)
MapOrderItems(orderItems, k, docs, saves, dbItems) ==
    IF k > Len(orderItems)
    THEN [error |-> "", docs |-> docs, saves |-> saves, dbItems |-> dbItems]
    ELSE LET it == orderItems[k]
         IN  IF it.product \notin DOMAIN docs
             THEN [error |-> "Product not found", docs |-> docs, saves |-> saves,
                   dbItems |-> dbItems]
             ELSE IF docs[it.product].inventory < it.quantity
             THEN [error |-> "Not enough stock", docs |-> docs, saves |-> saves,
                   dbItems |-> dbItems]
             ELSE LET left == docs[it.product].inventory - it.quantity
                  IN  MapOrderItems(orderItems, k + 1,
                          [docs EXCEPT ![it.product].inventory = left],
                          saves \cup {[product |-> it.product, inventory |-> left]},
                          Append(dbItems, [product |-> it.product,
                                           quantity |-> it.quantity,
                                           price |-> OrderLinePrice(it,
                                                         docs[it.product])]))

\* the synchronous part after Product.find: the map, then new Order(...) and
\* the call of order.save()
createOrder_Map(r) ==
    /\ nreq[r].pc = "map"
    /\ LET m == MapOrderItems(nreq[r].orderItems, 1, nreq[r].docs, {}, <<>>)
           started == {[user |-> nreq[r].user, product |-> w.product,
                        inventory |-> w.inventory, rejected |-> (m.error # "")] :
                          w \in m.saves}
       IN  /\ pendingSaves' = pendingSaves \cup started
           /\ IF m.error # ""
              THEN Respond(r, 500, m.error)
              ELSE /\ nreq' = [nreq EXCEPT ![r].pc = "save", ![r].docs = m.docs,
                                           ![r].dbItems = m.dbItems]
                   /\ UNCHANGED <<nodeResp, client>>
    /\ UNCHANGED <<products, nodeCarts, nodeOrders, nodeReqs>>

\* await order.save(): the Order is stored and 201 is answered, or the save
\* is rejected and the error handler answers
createOrder_Save(r) ==
    /\ nreq[r].pc = "save"
    /\ \/ /\ nodeOrders' = nodeOrders \cup
                {[id |-> Cardinality(nodeOrders) + 1, user |-> nreq[r].user,
                  orderItems |-> nreq[r].dbItems]}
          /\ Respond(r, 201, "")
       \/ /\ UNCHANGED nodeOrders
          /\ Respond(r, 500, "order save failed")
    /\ UNCHANGED <<products, nodeCarts, pendingSaves, nodeReqs>>

\* a caller of the API posts an order
ApiCreateOrder(u, orderItems) ==
    /\ createOrder_Find(u, orderItems, FALSE)
    /\ UNCHANGED <<products, nodeCarts, nodeOrders, pendingSaves, client>>
    /\ UNCHANGED <<goVars, storeVars, extVars>>

createOrder(r) ==
    /\ \/ createOrder_Map(r)
       \/ createOrder_Save(r)
    /\ UNCHANGED <<goVars, storeVars, extVars>>

\* a started product save reaches the database: inventory is set to the value
\* the request computed
ProductSaveLands(w) ==
    /\ w \in pendingSaves
    /\ pendingSaves' = pendingSaves \ {w}
    /\ products' = [products EXCEPT ![w.product].inventory = w.inventory]
    /\ UNCHANGED <<nodeCarts, nodeOrders, nreq, client, nodeResp, nodeReqs>>
    /\ UNCHANGED <<goVars, storeVars, extVars>>

\* a started product save is rejected; nobody observes the rejection
ProductSaveLost(w) ==
    /\ w \in pendingSaves
    /\ pendingSaves' = pendingSaves \ {w}
    /\ UNCHANGED <<products, nodeCarts, nodeOrders, nreq, client, nodeResp, nodeReqs>>
    /\ UNCHANGED <<goVars, storeVars, extVars>>

\* --------------------------------------------------------- handleCheckout
\* handleCheckout up to the awaited ordersAPI.createOrder
HandleCheckout(u) ==
    /\ client[u].pc = "ready"
    /\ Len(client[u].items) > 0
    /\ createOrder_Find(u,
           [k \in 1..Len(client[u].items) |->
               OrderLine(client[u].items[k].productId, client[u].items[k].quantity,
                         client[u].items[k].price)],
           TRUE)
    /\ client' = [client EXCEPT ![u].pc = IF nreq'[u].pc = "idle" THEN "ready"
                                          ELSE "ordering"]
    /\ UNCHANGED <<products, nodeCarts, nodeOrders, pendingSaves>>
    /\ UNCHANGED <<goVars, storeVars, extVars>>

\* await cartAPI.clearCart() after the order was placed: the cart handler
\* clearCart empties the cart and zeroes its totals, or fails; after a
\* failure the component stays open with the lines it holds
HandleCheckout_ClearCart(u) ==
    /\ client[u].pc = "clearing"
    /\ \/ /\ nodeCarts[u].exists
          /\ nodeCarts' = [nodeCarts EXCEPT ![u] = EmptyNodeCart]
          /\ nodeResp' = [status |-> 200, message |-> ""]
          /\ client' = [client EXCEPT ![u] = ClosedClient]
       \/ /\ nodeResp' = [status |-> IF nodeCarts[u].exists THEN 500 ELSE 404,
                          message |-> "clearCart failed"]
          /\ client' = [client EXCEPT ![u].pc = "ready"]
          /\ UNCHANGED nodeCarts
    /\ UNCHANGED <<products, nodeOrders, nreq, pendingSaves, nodeReqs>>
    /\ UNCHANGED <<goVars, storeVars, extVars>>

\* the user closes the component or the page at any point
ClientStops(u) ==
    /\ client[u].pc # "closed"
    /\ client' = [client EXCEPT ![u] = ClosedClient]
    /\ UNCHANGED <<products, nodeCarts, nodeOrders, nreq, pendingSaves, nodeResp,
                   nodeReqs>>
    /\ UNCHANGED <<goVars, storeVars, extVars>>

NodeNext ==
    \/ \E u \in SpaUsers, a \in ReqProductIDs, q \in NodeQtys : NodeAddToCart(u, a, q)
    \/ \E u \in SpaUsers : Mount(u)
    \/ \E u \in SpaUsers : HandleCheckout(u)
    \/ \E u \in SpaUsers : HandleCheckout_ClearCart(u)
    \/ \E u \in SpaUsers : ClientStops(u)
    \/ \E u \in NodeUsers, oi \in ApiOrderItems : ApiCreateOrder(u, oi)
    \/ \E r \in NodeUsers : createOrder(r)
    \/ \E w \in pendingSaves : ProductSaveLands(w)
    \/ \E w \in pendingSaves : ProductSaveLost(w)

\* ====================================================================
\* Part III: the Node cart handlers, one request after another
\* ====================================================================
MaxCartOps == 3        \* requests served by the second cart implementation

\* --------------------------------- first implementation: the other handlers
\* quantities a caller of addToCart or updateCartItem sends; nothing checks them
\* before the handler runs
CartQtys == {-1, 0, 1, 2}
ProductPrices == {1000, 1200, 2500}

RemoveAt(q, k) == SubSeq(q, 1, k - 1) \o SubSeq(q, k + 1, Len(q))

\* cart handler updateCartItem: the line is found by its _id and its quantity
\* is set to parseInt(quantity); cart.save, cart.calculateTotals.  addToCart
\* keeps one line per product here, so the request names the line by the
\* product it holds; product 3 stands for an _id no line has.
NodeUpdateCartItem(u, productId, quantity) ==
    /\ nodeReqs < MaxNodeReqs
    /\ nodeReqs' = nodeReqs + 1
    /\ IF ~nodeCarts[u].exists
       THEN /\ nodeResp' = [status |-> 404, message |-> "Cart not found"]
            /\ UNCHANGED nodeCarts
       ELSE LET cart == nodeCarts[u]
                k == LineIndex(cart.items, productId)
            IN  IF k = 0
                THEN /\ nodeResp' = [status |-> 404, message |-> "Item not found in cart"]
                     /\ UNCHANGED nodeCarts
                ELSE LET newItems == [cart.items EXCEPT ![k].quantity = quantity]
                     IN  \/ /\ CartValid(newItems)
                            /\ nodeCarts' = [nodeCarts EXCEPT ![u] =
                                    CartPreSave([cart EXCEPT !.items = newItems])]
                            /\ nodeResp' = [status |-> 200, message |-> ""]
                         \/ /\ UNCHANGED nodeCarts
                            /\ nodeResp' = [status |-> 500,
                                            message |-> SaveError(newItems)]
    /\ UNCHANGED <<products, nodeOrders, nreq, pendingSaves, client>>
    /\ UNCHANGED <<goVars, storeVars, extVars>>

\* cart handler removeFromCart: the lines whose _id differs are kept;
\* cart.save, cart.calculateTotals
NodeRemoveFromCart(u, productId) ==
    /\ nodeReqs < MaxNodeReqs
    /\ nodeReqs' = nodeReqs + 1
    /\ IF ~nodeCarts[u].exists
       THEN /\ nodeResp' = [status |-> 404, message |-> "Cart not found"]
            /\ UNCHANGED nodeCarts
       ELSE LET cart == nodeCarts[u]
                newItems == SelectSeq(cart.items, LAMBDA l : l.product # productId)
            IN  \/ /\ nodeCarts' = [nodeCarts EXCEPT ![u] =
                            CartPreSave([cart EXCEPT !.items = newItems])]
                   /\ nodeResp' = [status |-> 200, message |-> ""]
                \/ /\ UNCHANGED nodeCarts
                   /\ nodeResp' = [status |-> 500, message |-> "save failed"]
    /\ UNCHANGED <<products, nodeOrders, nreq, pendingSaves, client>>
    /\ UNCHANGED <<goVars, storeVars, extVars>>

\* PUT /products/:id: catalog administration gives a product a new price
ProductUpdate(a, price) ==
    /\ products[a].price # price
    /\ \A r \in NodeUsers : nreq[r].pc = "idle"
    /\ products' = [products EXCEPT ![a].price = price]
    /\ UNCHANGED <<nodeCarts, nodeOrders, nreq, pendingSaves, client, nodeResp, nodeReqs>>
    /\ UNCHANGED <<goVars, storeVars, extVars>>

\* ------------------------------------------------- second implementation
StoreItemIDs == {1, 2}     \* items that exist
\* a request may also name item 3, which does not exist
ReqStoreItemIDs == {1, 2, 3}
\* the quantity of a request body: the number n, sent as a JSON number or as
\* the JSON string of its digit
BodyQtys == {[n |-> q, text |-> t] : q \in {0, 1, 2}, t \in BOOLEAN}
UpdateQtys == {-1, 0, 1, 2, 3}
\* fields of an updateItem body; 0 is also what an absent field counts as
PriceInputs == {0, 4500}
StockInputs == {0, 1, 3}

\* two requests of the same user can be in flight at a time
CartReqs == {1, 2}
\* a request between Cart.findOne and cart.save(): the document as it was
\* loaded with its version, and what the handler changed in it, which is what
\* save() sends: a line pushed, or the quantity set at a position
IdleCartReq == [pc |-> "idle", cart |-> [exists |-> FALSE, items |-> <<>>,
                                        totalItems |-> 0, totalPrice |-> 0],
                v |-> 0, push |-> [item |-> 0, price |-> 0, quantity |-> 0], setAt |-> 0, quantity |-> 0]

NoCartDoc == [exists |-> FALSE, items |-> <<>>, totalItems |-> 0, totalPrice |-> 0]

CartInit ==
    /\ itemDocs = [i \in StoreItemIDs |->
                     IF i = 1 THEN [price |-> 4000, countInStock |-> 2]
                              ELSE [price |-> 7000, countInStock |-> 12]]
    /\ cartDoc = NoCartDoc
    /\ cartResp = [status |-> 0, message |-> ""]
    /\ cartOps = 0
    /\ stockLowered = FALSE
    /\ cartReq = [r \in CartReqs |-> IdleCartReq]
    /\ cartV = 0
    /\ orderDocs = <<>>
    /\ orderResp = [status |-> 0, orders |-> {}]

\* cartSchema.pre('save'): totalItems and totalPrice from the lines
CartDocPreSave(cart) ==
    [cart EXCEPT
        !.totalItems = SeqSum([k \in 1..Len(cart.items) |-> cart.items[k].quantity]),
        !.totalPrice = SeqSum([k \in 1..Len(cart.items) |->
                                 cart.items[k].price * cart.items[k].quantity])]

\* cart.items[existingItemIndex].quantity + quantity: the sum of two numbers,
\* and the digits of the stored number followed by the digit sent when the
\* body carries a string
JsPlus(existing, quantity) ==
    IF quantity.text THEN existing * 10 + quantity.n ELSE existing + quantity.n

ItemIndex(cartItems_, itemId) ==
    IF \E k \in 1..Len(cartItems_) : cartItems_[k].item = itemId
    THEN CHOOSE k \in 1..Len(cartItems_) :
            /\ cartItems_[k].item = itemId
            /\ \A j \in 1..(k - 1) : cartItems_[j].item # itemId
    ELSE 0

CartAnswer(status, message) == [status |-> status, message |-> message]

\* await cart.save() and the answer after it: the document is stored with
\* the totals of pre('save'), or the save is rejected and the catch answers 500
CartDocSave(newItems, status) ==
    \/ /\ cartDoc' = CartDocPreSave([cartDoc EXCEPT !.exists = TRUE, !.items = newItems])
       /\ cartResp' = CartAnswer(status, "")
    \/ /\ UNCHANGED cartDoc
       /\ cartResp' = CartAnswer(500, "Server Error")

\* the line's new quantity is never compared with the stock
ExceedsStock_Never(newQuantity, item) == FALSE

\* if (newQuantity > item.countInStock)
ExceedsStock(newQuantity, item) == newQuantity > item.countInStock

\* POST /api/cart/items: the route's validation, then addItemToCart
addItemToCart(itemId, quantity) ==
    /\ cartOps < MaxCartOps
    /\ cartOps' = cartOps + 1
    /\ IF quantity.n < 1
       THEN /\ cartResp' = CartAnswer(400, "Quantity must be a number")
            /\ UNCHANGED cartDoc
       ELSE IF itemId \notin DOMAIN itemDocs
       THEN /\ cartResp' = CartAnswer(404, "Item not found")
            /\ UNCHANGED cartDoc
       ELSE IF itemDocs[itemId].countInStock < quantity.n
       THEN /\ cartResp' = CartAnswer(400, "Only countInStock items available in stock")
            /\ UNCHANGED cartDoc
       ELSE LET k == ItemIndex(cartDoc.items, itemId)
                newQuantity == JsPlus(cartDoc.items[k].quantity, quantity)
            IN  IF k > 0 /\ ExceedsStock(newQuantity, itemDocs[itemId])
                THEN /\ cartResp' = CartAnswer(400, "Cannot add more than countInStock items to cart")
                     /\ UNCHANGED cartDoc
                ELSE CartDocSave(
                        IF k > 0
                        THEN [cartDoc.items EXCEPT ![k].quantity = newQuantity]
                        ELSE Append(cartDoc.items,
                                    [item |-> itemId, price |-> itemDocs[itemId].price,
                                     quantity |-> quantity.n]),
                        201)
    /\ UNCHANGED <<itemDocs, stockLowered>>
    /\ UNCHANGED <<goVars, nodeVars, extVars>>

\* PUT /api/cart/items/:itemId: the route's validation, then updateCartItem.
\* The comparisons and the assignment treat the string of a number as the
\* number, so quantity is the number.
updateCartItem(itemId, quantity) ==
    /\ cartOps < MaxCartOps
    /\ cartOps' = cartOps + 1
    /\ IF quantity < 0
       THEN /\ cartResp' = CartAnswer(400, "Quantity is required")
            /\ UNCHANGED cartDoc
       ELSE IF itemId \notin DOMAIN itemDocs
       THEN /\ cartResp' = CartAnswer(404, "Item not found")
            /\ UNCHANGED cartDoc
       ELSE IF quantity > itemDocs[itemId].countInStock
       THEN /\ cartResp' = CartAnswer(400, "Only countInStock items available in stock")
            /\ UNCHANGED cartDoc
       ELSE IF ~cartDoc.exists
       THEN /\ cartResp' = CartAnswer(404, "Cart not found")
            /\ UNCHANGED cartDoc
       ELSE LET k == ItemIndex(cartDoc.items, itemId)
            IN  IF k = 0
                THEN /\ cartResp' = CartAnswer(404, "Item not found in cart")
                     /\ UNCHANGED cartDoc
                ELSE CartDocSave(
                        IF quantity <= 0
                        THEN RemoveAt(cartDoc.items, k)
                        ELSE [cartDoc.items EXCEPT ![k].quantity = quantity],
                        200)
    /\ UNCHANGED <<itemDocs, stockLowered>>
    /\ UNCHANGED <<goVars, nodeVars, extVars>>

\* DELETE /api/cart/items/:itemId
removeItemFromCart(itemId) ==
    /\ cartOps < MaxCartOps
    /\ cartOps' = cartOps + 1
    /\ IF ~cartDoc.exists
       THEN /\ cartResp' = CartAnswer(404, "Cart not found")
            /\ UNCHANGED cartDoc
       ELSE LET k == ItemIndex(cartDoc.items, itemId)
            IN  IF k = 0
                THEN /\ cartResp' = CartAnswer(404, "Item not found in cart")
                     /\ UNCHANGED cartDoc
                ELSE CartDocSave(RemoveAt(cartDoc.items, k), 200)
    /\ UNCHANGED <<itemDocs, stockLowered>>
    /\ UNCHANGED <<goVars, nodeVars, extVars>>

\* PUT /api/items/:id, updateItem: a field of the body that is absent or 0
\* leaves the stored value
updateItem(id, price, countInStock) ==
    /\ cartOps < MaxCartOps
    /\ cartOps' = cartOps + 1
    /\ id \in DOMAIN itemDocs
    /\ LET item == [price |-> IF price # 0 THEN price ELSE itemDocs[id].price,
                    countInStock |-> IF countInStock # 0 THEN countInStock
                                     ELSE itemDocs[id].countInStock]
       IN  \/ /\ itemDocs' = [itemDocs EXCEPT ![id] = item]
              /\ stockLowered' = (stockLowered
                                    \/ item.countInStock < itemDocs[id].countInStock)
              /\ cartResp' = CartAnswer(200, "")
           \/ /\ UNCHANGED <<itemDocs, stockLowered>>
              /\ cartResp' = CartAnswer(500, "Server Error")
    /\ UNCHANGED cartDoc
    /\ UNCHANGED <<goVars, nodeVars, extVars>>

\* GET /api/cart, getCart: lines whose item is gone or out of stock are
\* dropped, and the cart is saved only when a line was dropped
getCart ==
    /\ cartOps < MaxCartOps
    /\ cartOps' = cartOps + 1
    /\ IF ~cartDoc.exists
       THEN /\ cartResp' = CartAnswer(200, "")
            /\ UNCHANGED cartDoc
       ELSE LET validItems ==
                    SelectSeq(cartDoc.items,
                              LAMBDA l : /\ l.item \in DOMAIN itemDocs
                                         /\ itemDocs[l.item].countInStock > 0)
            IN  IF Len(validItems) # Len(cartDoc.items)
                THEN CartDocSave(validItems, 200)
                ELSE /\ cartResp' = CartAnswer(200, "")
                     /\ UNCHANGED cartDoc
    /\ UNCHANGED <<itemDocs, stockLowered>>
    /\ UNCHANGED <<goVars, nodeVars, extVars>>

\* DELETE /api/cart, clearCart
clearCart ==
    /\ cartOps < MaxCartOps
    /\ cartOps' = cartOps + 1
    /\ IF ~cartDoc.exists
       THEN /\ cartResp' = CartAnswer(404, "Cart not found")
            /\ UNCHANGED cartDoc
       ELSE CartDocSave(<<>>, 200)
    /\ UNCHANGED <<itemDocs, stockLowered>>
    /\ UNCHANGED <<goVars, nodeVars, extVars>>

\* DELETE /api/items/:id, deleteItem
deleteItem(id) ==
    /\ cartOps < MaxCartOps
    /\ cartOps' = cartOps + 1
    /\ IF id \notin DOMAIN itemDocs
       THEN /\ cartResp' = CartAnswer(404, "Item not found")
            /\ UNCHANGED itemDocs
       ELSE \/ /\ itemDocs' = [i \in DOMAIN itemDocs \ {id} |-> itemDocs[i]]
               /\ cartResp' = CartAnswer(200, "Item removed")
            \/ /\ UNCHANGED itemDocs
               /\ cartResp' = CartAnswer(500, "Server Error")
    /\ UNCHANGED <<cartDoc, stockLowered>>
    /\ UNCHANGED <<goVars, nodeVars, extVars>>

\* ------------------------------- addItemToCart, two requests of one user
\* The handler gives up control at its awaits.  addItemToCart_Find is the
\* handler up to cart.save(): validation, Item.findById, Cart.findOne and the
\* change of the loaded document; addItemToCart_Save is cart.save() and the
\* answer.  Between the two the other request may run.
addItemToCart_Find(r, itemId, quantity) ==
    /\ cartReq[r].pc = "idle"
    /\ cartOps < MaxCartOps
    /\ cartOps' = cartOps + 1
    /\ IF quantity.n < 1
       THEN /\ cartResp' = CartAnswer(400, "Quantity must be a number")
            /\ UNCHANGED cartReq
       ELSE IF itemId \notin DOMAIN itemDocs
       THEN /\ cartResp' = CartAnswer(404, "Item not found")
            /\ UNCHANGED cartReq
       ELSE IF itemDocs[itemId].countInStock < quantity.n
       THEN /\ cartResp' = CartAnswer(400, "Only countInStock items available in stock")
            /\ UNCHANGED cartReq
       ELSE LET k == ItemIndex(cartDoc.items, itemId)
                newQuantity == JsPlus(cartDoc.items[k].quantity, quantity)
            IN  IF k > 0 /\ ExceedsStock(newQuantity, itemDocs[itemId])
                THEN /\ cartResp' = CartAnswer(400, "Cannot add more than countInStock items to cart")
                     /\ UNCHANGED cartReq
                ELSE /\ cartReq' = [cartReq EXCEPT ![r] =
                            [pc |-> "save", cart |-> cartDoc, v |-> cartV,
                             push |-> IF k > 0 THEN IdleCartReq.push
                                      ELSE [item |-> itemId,
                                            price |-> itemDocs[itemId].price,
                                            quantity |-> quantity.n],
                             setAt |-> k,
                             quantity |-> IF k > 0 THEN newQuantity ELSE 0]]
                     /\ UNCHANGED cartResp
    /\ UNCHANGED <<itemDocs, cartDoc, stockLowered, cartV>>
    /\ UNCHANGED <<goVars, nodeVars, orderDocs, orderResp, authVars, guestVars, saveVars>>

\* the lines of the document in the request's memory
LoadedItems(q) ==
    IF q.setAt > 0 THEN [q.cart.items EXCEPT ![q.setAt].quantity = q.quantity]
    ELSE Append(q.cart.items, q.push)

\* await cart.save().  pre('save') computes the totals from the lines in the
\* request's memory.  A new document is inserted, which the unique index on
\* user rejects when the user has a cart by now.  For a stored document
\* save() sends what the request changed: the pushed line is appended to the
\* stored lines and moves the version on; a quantity is set at its position
\* provided the version is the one loaded; the two totals are set to the
\* values computed in memory.
addItemToCart_Save(r) ==
    /\ cartReq[r].pc = "save"
    /\ cartReq' = [cartReq EXCEPT ![r] = IdleCartReq]
    /\ LET q == cartReq[r]
           saved == CartDocPreSave([q.cart EXCEPT !.exists = TRUE,
                                                  !.items = LoadedItems(q)])
       IN  \/ /\ ~q.cart.exists
              /\ IF cartDoc.exists
                 THEN /\ cartResp' = CartAnswer(500, "Server Error")
                      /\ UNCHANGED <<cartDoc, cartV>>
                 ELSE /\ cartDoc' = saved
                      /\ cartResp' = CartAnswer(201, "")
                      /\ UNCHANGED cartV
           \/ /\ q.cart.exists
              /\ q.setAt = 0
              /\ cartDoc' = [cartDoc EXCEPT !.items = Append(@, q.push),
                                            !.totalItems = saved.totalItems,
                                            !.totalPrice = saved.totalPrice]
              /\ cartV' = cartV + 1
              /\ cartResp' = CartAnswer(201, "")
           \/ /\ q.cart.exists
              /\ q.setAt > 0
              /\ IF cartV # q.v
                 THEN /\ cartResp' = CartAnswer(500, "Server Error")
                      /\ UNCHANGED <<cartDoc, cartV>>
                 ELSE /\ cartDoc' = [cartDoc EXCEPT
                                        !.items[q.setAt].quantity = q.quantity,
                                        !.totalItems = saved.totalItems,
                                        !.totalPrice = saved.totalPrice]
                      /\ cartResp' = CartAnswer(201, "")
                      /\ UNCHANGED cartV
           \/ /\ cartResp' = CartAnswer(500, "Server Error")
              /\ UNCHANGED <<cartDoc, cartV>>
    /\ UNCHANGED <<itemDocs, cartOps, stockLowered>>
    /\ UNCHANGED <<goVars, nodeVars, orderDocs, orderResp, authVars, guestVars, saveVars>>

CartRaceNext ==
    \/ \E r \in CartReqs, i \in ReqStoreItemIDs, q \in BodyQtys :
          addItemToCart_Find(r, i, q)
    \/ \E r \in CartReqs : addItemToCart_Save(r)

\* a behaviour of CartSpec runs one of the two implementations, which are
\* alternatives and share no state: the first one while the second is
\* untouched, and the other way round
FirstCart == cartOps = 0
SecondCart == nodeReqs = 0 /\ products = SeedProducts

CartNext ==
    \/ \E u \in SpaUsers, a \in ReqProductIDs, q \in CartQtys :
          FirstCart /\ NodeAddToCart(u, a, q)
    \/ \E u \in SpaUsers, a \in ReqProductIDs, q \in CartQtys :
          FirstCart /\ NodeUpdateCartItem(u, a, q)
    \/ \E u \in SpaUsers, a \in ReqProductIDs :
          FirstCart /\ NodeRemoveFromCart(u, a)
    \/ \E a \in ProductIDs, c \in ProductPrices :
          FirstCart /\ ProductUpdate(a, c)
    \/ \E i \in ReqStoreItemIDs, q \in BodyQtys :
          SecondCart /\ addItemToCart(i, q)
    \/ \E i \in ReqStoreItemIDs, q \in UpdateQtys :
          SecondCart /\ updateCartItem(i, q)
    \/ \E i \in ReqStoreItemIDs :
          SecondCart /\ removeItemFromCart(i)
    \/ \E i \in StoreItemIDs, c \in PriceInputs, n \in StockInputs :
          SecondCart /\ updateItem(i, c, n)
    \/ SecondCart /\ getCart
    \/ SecondCart /\ clearCart
    \/ \E i \in ReqStoreItemIDs : SecondCart /\ deleteItem(i)

\* ====================================================================
\* Part IV: save() of a Cart document of the first implementation
\* ====================================================================
MaxSaves == 2          \* saves called
MaxSaveDepth == 3      \* passes through pre('save') followed within one save

\* cart.save() on a document with the given lines.  The schema validation
\* comes first.  pre('save') does nothing unless items is modified;
\* otherwise it drops the lines with quantity <= 0 and awaits
\* calculateTotals, which sets the totals in memory and calls save() on the
\* document that is being saved.
NodeCartSave(lines, modified) ==
    /\ saveRun.pc # "hook"
    /\ saveCalls < MaxSaves
    /\ saveCalls' = saveCalls + 1
    /\ LET cart == [EmptyNodeCart EXCEPT !.items = lines]
       IN  IF ~CartValid(lines)
           THEN /\ saveRun' = [pc |-> "rejected", depth |-> 0, cart |-> cart]
                /\ UNCHANGED savedCart
           ELSE IF ~modified
           THEN /\ saveRun' = [pc |-> "stored", depth |-> 0, cart |-> cart]
                /\ savedCart' = cart
           ELSE /\ saveRun' = [pc |-> "hook", depth |-> 1, cart |-> CartPreSave(cart)]
                /\ UNCHANGED savedCart
    /\ UNCHANGED <<goVars, nodeVars, storeVars, cartReq, cartV, orderDocs, orderResp,
                   authVars, guestVars>>

\* return this.save() inside calculateTotals, called from pre('save') while
\* the document's save is in progress.  What it does is mongoose's, and the
\* sources fix no version: the call is refused because the document is
\* already being saved, which makes the hook and with it the outer save fail;
\* or the call runs the hooks of save again, where items is still modified
\* and calculateTotals is awaited once more.  Nothing has been written at
\* this point in either case.
calculateTotals_Save ==
    /\ saveRun.pc = "hook"
    /\ \/ saveRun' = [saveRun EXCEPT !.pc = "failed"]
       \/ /\ saveRun.depth < MaxSaveDepth
          /\ saveRun' = [saveRun EXCEPT !.depth = @ + 1]
    /\ UNCHANGED <<savedCart, saveCalls>>
    /\ UNCHANGED <<goVars, nodeVars, storeVars, cartReq, cartV, orderDocs, orderResp,
                   authVars, guestVars>>

SaveNext ==
    \/ \E a \in ProductIDs, q \in {0, 1, 2}, c \in ProductPrices, m \in BOOLEAN :
          NodeCartSave(<<[product |-> a, quantity |-> q, price |-> c]>>, m)
    \/ calculateTotals_Save

\* ====================================================================
\* Part V: the cart of the SPA for a visitor without a token
\* ====================================================================
MaxGuestOps == 4       \* cart thunks dispatched

\* addToCart({productId, qty}) without a token: the item stored is
\* {productId, quantity}.  A property an item does not have reads as
\* undefined, which is written 0 here, so every stored item has _id 0.
guestAddToCart(productId, qty) ==
    /\ guestOps < MaxGuestOps
    /\ guestOps' = guestOps + 1
    /\ LET existingItemIndex ==
               IF \E k \in 1..Len(guestCart.items) : guestCart.items[k].productId = productId
               THEN CHOOSE k \in 1..Len(guestCart.items) :
                       /\ guestCart.items[k].productId = productId
                       /\ \A j \in 1..(k - 1) : guestCart.items[j].productId # productId
               ELSE 0
       IN  guestCart' =
              [exists |-> TRUE,
               items |-> IF existingItemIndex > 0
                         THEN [guestCart.items EXCEPT ![existingItemIndex].quantity = @ + qty]
                         ELSE Append(guestCart.items,
                                     [productId |-> productId, _id |-> 0,
                                      quantity |-> qty])]
    /\ guestResult' = "fulfilled"
    /\ UNCHANGED <<goVars, nodeVars, storeVars, cartReq, cartV, orderDocs, orderResp,
                   authVars, saveVars>>

\* updateCartItem({itemId, qty}) without a token
guestUpdateCartItem(itemId, qty) ==
    /\ guestOps < MaxGuestOps
    /\ guestOps' = guestOps + 1
    /\ IF guestCart.exists /\ \E k \in 1..Len(guestCart.items) : guestCart.items[k]._id = itemId
       THEN LET itemIndex == CHOOSE k \in 1..Len(guestCart.items) :
                                /\ guestCart.items[k]._id = itemId
                                /\ \A j \in 1..(k - 1) : guestCart.items[j]._id # itemId
            IN  /\ guestCart' = [guestCart EXCEPT !.items[itemIndex].quantity = qty]
                /\ guestResult' = "fulfilled"
       ELSE /\ guestResult' = "Cart item not found"
            /\ UNCHANGED guestCart
    /\ UNCHANGED <<goVars, nodeVars, storeVars, cartReq, cartV, orderDocs, orderResp,
                   authVars, saveVars>>

\* removeFromCart(itemId) without a token
guestRemoveFromCart(itemId) ==
    /\ guestOps < MaxGuestOps
    /\ guestOps' = guestOps + 1
    /\ IF guestCart.exists
       THEN /\ guestCart' = [guestCart EXCEPT !.items =
                                SelectSeq(@, LAMBDA item : item._id # itemId)]
            /\ guestResult' = "fulfilled"
       ELSE /\ guestResult' = "Cart not found"
            /\ UNCHANGED guestCart
    /\ UNCHANGED <<goVars, nodeVars, storeVars, cartReq, cartV, orderDocs, orderResp,
                   authVars, saveVars>>

\* the visitor names products 1 and 2, and items by the id of their product
\* or by their _id
GuestNext ==
    \/ \E a \in {1, 2}, q \in {1, 2} : guestAddToCart(a, q)
    \/ \E i \in {0, 1, 2}, q \in {1, 2, 3} : guestUpdateCartItem(i, q)
    \/ \E i \in {0, 1, 2} : guestRemoveFromCart(i)

\* ====================================================================
\* Part VI: authentication of the Go backend
\* ====================================================================
MaxAuthOps == 4        \* requests to CreateUser, Login and AuthMiddleware

\* tokenExpiration, in hours
tokenExpiration == 24

\* GenerateToken: HS256 over the claims username and exp = now + 24 h; two
\* tokens made for one user at the same time are the same string
GenerateToken(username, now) ==
    [username |-> username, exp |-> now + tokenExpiration, signed |-> TRUE]

\* ValidateToken: the signature checks and exp has not passed
ValidateToken(token, now) == token.signed /\ now < token.exp

AuthAnswer(status, error, token) == [status |-> status, error |-> error, token |-> token]

\* POST /api/users
CreateUser(username, password, now) ==
    /\ authOps < MaxAuthOps
    /\ authOps' = authOps + 1
    /\ now >= clock
    /\ clock' = now
    /\ IF password = "short"
       THEN /\ authResp' = AuthAnswer(400, "binding", NoToken)
            /\ UNCHANGED <<users, issued>>
       ELSE IF users[username].exists
       THEN /\ authResp' = AuthAnswer(400, "username already exists", NoToken)
            /\ UNCHANGED <<users, issued>>
       ELSE LET token == GenerateToken(username, now)
            IN  \/ /\ users' = [users EXCEPT ![username] =
                              [exists |-> TRUE, Password |-> password, Token |-> token]]
                   /\ authResp' = AuthAnswer(201, "", token)
                   /\ issued' = [issued EXCEPT ![username] = token]
                \/ /\ authResp' = AuthAnswer(500, "failed to create user", NoToken)
                   /\ UNCHANGED <<users, issued>>
    /\ UNCHANGED <<goVars, nodeVars, storeVars, cartReq, cartV, orderDocs, orderResp, guestVars, saveVars>>

\* POST /api/users/login.  The result of Save(&user) is not looked at: the
\* answer is 200 with the new token whether or not the row was written.
Login(username, password, now) ==
    /\ authOps < MaxAuthOps
    /\ authOps' = authOps + 1
    /\ now >= clock
    /\ clock' = now
    /\ IF ~users[username].exists \/ users[username].Password # password
       THEN /\ authResp' = AuthAnswer(401, "invalid credentials", NoToken)
            /\ UNCHANGED <<users, issued>>
       ELSE LET token == GenerateToken(username, now)
            IN  /\ \/ users' = [users EXCEPT ![username].Token = token]
                   \/ UNCHANGED users
                /\ authResp' = AuthAnswer(200, "", token)
                /\ issued' = [issued EXCEPT ![username] = token]
    /\ UNCHANGED <<goVars, nodeVars, storeVars, cartReq, cartV, orderDocs, orderResp, guestVars, saveVars>>

\* a request to a protected route with the Authorization header made of the
\* scheme and the token; with status 200 the handler runs as the user the
\* answer names
AuthMiddleware(scheme, token, now) ==
    /\ authOps < MaxAuthOps
    /\ authOps' = authOps + 1
    /\ now >= clock
    /\ clock' = now
    /\ IF scheme = ""
       THEN authResp' = AuthAnswer(401, "Authorization header is required", NoToken)
       ELSE IF scheme # "Bearer "
       THEN authResp' = AuthAnswer(401, "Bearer token not found in Authorization header", NoToken)
       ELSE IF ~ValidateToken(token, now)
       THEN authResp' = AuthAnswer(401, "Invalid or expired token", NoToken)
       ELSE IF \/ token.username \notin AuthNames
               \/ ~users[token.username].exists
               \/ users[token.username].Token # token
       THEN authResp' = AuthAnswer(401, "Invalid user session", NoToken)
       ELSE authResp' = AuthAnswer(200, "", token)
    /\ UNCHANGED <<users, issued>>
    /\ UNCHANGED <<goVars, nodeVars, storeVars, cartReq, cartV, orderDocs, orderResp, guestVars, saveVars>>

\* the requests come at hours 0, 1 and 30; a caller sends any token that was
\* or could have been issued, or one signed with another key
AuthNext ==
    \/ \E n \in AuthNames, w \in {"secret1", "short"}, t \in {0, 1, 30} :
          CreateUser(n, w, t)
    \/ \E n \in AuthNames, w \in {"secret1", "wrong1"}, t \in {0, 1, 30} :
          Login(n, w, t)
    \/ \E h \in {"", "Token ", "Bearer "}, n \in AuthNames \cup {"c"},
          e \in {0, 1, 30}, g \in BOOLEAN, t \in {0, 1, 30} :
          AuthMiddleware(h, [GenerateToken(n, e) EXCEPT !.signed = g], t)

\* ====================================================================
\* Part VII: the Order documents of the Node backend
\* ====================================================================
MaxOrders == 1     \* orders created

\* the order model charges 10 for shipping up to an items price of 100 and
\* nothing above it; in cents
FreeShippingThreshold == 10000
FlatShippingFee == 1000

\* users 1 and 2 have the role user, user 3 the role admin
OrderUsers == {1, 2, 3}
Role(u) == IF u = 3 THEN "admin" ELSE "user"

\* the lines createOrder has built from the catalog: an order below the
\* free-shipping threshold, one at it and one above it
OrderLineSets ==
    {<<[price |-> 2500, quantity |-> 1]>>,
     <<[price |-> 5000, quantity |-> 2]>>,
     <<[price |-> 2500, quantity |-> 2], [price |-> 5005, quantity |-> 2]>>}

\* itemsPrice, taxPrice, shippingPrice and totalPrice of req.body
ClientPrices ==
    {[itemsPrice |-> c, taxPrice |-> c, shippingPrice |-> c, totalPrice |-> c] :
        c \in {1, 99999}}

validStatuses == {"pending", "processing", "shipped", "delivered", "cancelled"}

\* the status of an Order that was given none
DefaultStatus == "pending"

OrderAnswer(status, returned) == [status |-> status, orders |-> returned]

\* the hook is not run and the prices stay as they were set
OrderPreSave_Skipped(order) == order

\* orderSchema.pre('save'), amounts in cents
OrderPreSave(order) ==
    LET itemsPrice == SeqSum([k \in 1..Len(order.orderItems) |->
                        order.orderItems[k].price * order.orderItems[k].quantity])
        shippingPrice == IF itemsPrice > FreeShippingThreshold THEN 0
                         ELSE FlatShippingFee
        taxPrice == TaxOf(itemsPrice)
    IN  [order EXCEPT !.itemsPrice = itemsPrice,
                      !.shippingPrice = shippingPrice,
                      !.taxPrice = taxPrice,
                      !.totalPrice = itemsPrice + shippingPrice + taxPrice]

\* await order.save() of the document with the given id and the answer after
\* it; the save may be rejected, which the error handler answers
OrderSave(id, order, status) ==
    \/ /\ orderDocs' = [k \in 1..(IF id > Len(orderDocs) THEN id ELSE Len(orderDocs)) |->
                          IF k = id THEN OrderPreSave(order) ELSE orderDocs[k]]
       /\ orderResp' = OrderAnswer(status, {id})
    \/ /\ UNCHANGED orderDocs
       /\ orderResp' = OrderAnswer(500, {})

\* createOrder from new Order({...}) on: the lines built from the catalog,
\* req.user and the prices of req.body
createOrder_NewOrder(u, dbItems, body) ==
    /\ Len(orderDocs) < MaxOrders
    /\ OrderSave(Len(orderDocs) + 1,
                 [user |-> u, orderItems |-> dbItems,
                  itemsPrice |-> body.itemsPrice, taxPrice |-> body.taxPrice,
                  shippingPrice |-> body.shippingPrice,
                  totalPrice |-> body.totalPrice,
                  isPaid |-> FALSE, isDelivered |-> FALSE,
                  status |-> DefaultStatus],
                 201)
    /\ UNCHANGED <<goVars, nodeVars, storeVars, cartReq, cartV, authVars, guestVars, saveVars>>

\* GET /orders/:id
getOrderById(u, id) ==
    /\ IF id \notin DOMAIN orderDocs
       THEN orderResp' = OrderAnswer(404, {})
       ELSE IF orderDocs[id].user # u /\ Role(u) # "admin"
       THEN orderResp' = OrderAnswer(401, {})
       ELSE orderResp' = OrderAnswer(200, {id})
    /\ UNCHANGED orderDocs
    /\ UNCHANGED <<goVars, nodeVars, storeVars, cartReq, cartV, authVars, guestVars, saveVars>>

\* PUT /orders/:id/pay
updateOrderToPaid(u, id) ==
    /\ IF id \notin DOMAIN orderDocs
       THEN /\ orderResp' = OrderAnswer(404, {})
            /\ UNCHANGED orderDocs
       ELSE IF orderDocs[id].user # u /\ Role(u) # "admin"
       THEN /\ orderResp' = OrderAnswer(401, {})
            /\ UNCHANGED orderDocs
       ELSE OrderSave(id, [orderDocs[id] EXCEPT !.isPaid = TRUE], 200)
    /\ UNCHANGED <<goVars, nodeVars, storeVars, cartReq, cartV, authVars, guestVars, saveVars>>

\* PUT /orders/:id/deliver, behind authorize('admin')
updateOrderToDelivered(u, id) ==
    /\ IF Role(u) # "admin"
       THEN /\ orderResp' = OrderAnswer(403, {})
            /\ UNCHANGED orderDocs
       ELSE IF id \notin DOMAIN orderDocs
       THEN /\ orderResp' = OrderAnswer(404, {})
            /\ UNCHANGED orderDocs
       ELSE OrderSave(id, [orderDocs[id] EXCEPT !.isDelivered = TRUE,
                                                !.status = "delivered"], 200)
    /\ UNCHANGED <<goVars, nodeVars, storeVars, cartReq, cartV, authVars, guestVars, saveVars>>

\* PUT /orders/:id/status, behind authorize('admin')
updateOrderStatus(u, id, status) ==
    /\ IF Role(u) # "admin"
       THEN /\ orderResp' = OrderAnswer(403, {})
            /\ UNCHANGED orderDocs
       ELSE IF status \notin validStatuses
       THEN /\ orderResp' = OrderAnswer(400, {})
            /\ UNCHANGED orderDocs
       ELSE IF id \notin DOMAIN orderDocs
       THEN /\ orderResp' = OrderAnswer(404, {})
            /\ UNCHANGED orderDocs
       ELSE OrderSave(id, [orderDocs[id] EXCEPT
                              !.status = status,
                              !.isDelivered = (@ \/ status = "delivered")], 200)
    /\ UNCHANGED <<goVars, nodeVars, storeVars, cartReq, cartV, authVars, guestVars, saveVars>>

\* GET /orders/myorders
getMyOrders(u) ==
    /\ orderResp' = OrderAnswer(200, {k \in DOMAIN orderDocs : orderDocs[k].user = u})
    /\ UNCHANGED orderDocs
    /\ UNCHANGED <<goVars, nodeVars, storeVars, cartReq, cartV, authVars, guestVars, saveVars>>

\* GET /orders, behind authorize('admin')
getOrders(u) ==
    /\ IF Role(u) # "admin"
       THEN orderResp' = OrderAnswer(403, {})
       ELSE orderResp' = OrderAnswer(200, DOMAIN orderDocs)
    /\ UNCHANGED orderDocs
    /\ UNCHANGED <<goVars, nodeVars, storeVars, cartReq, cartV, authVars, guestVars, saveVars>>

OrderNext ==
    \/ \E u \in OrderUsers, l \in OrderLineSets, b \in ClientPrices :
          createOrder_NewOrder(u, l, b)
    \/ \E u \in OrderUsers, id \in 1..(MaxOrders + 1) : getOrderById(u, id)
    \/ \E u \in OrderUsers, id \in 1..(MaxOrders + 1) : updateOrderToPaid(u, id)
    \/ \E u \in OrderUsers, id \in 1..(MaxOrders + 1) : updateOrderToDelivered(u, id)
    \/ \E u \in OrderUsers, id \in 1..(MaxOrders + 1), st \in validStatuses \cup {"refunded"} :
          updateOrderStatus(u, id, st)
    \/ \E u \in OrderUsers : getMyOrders(u)
    \/ \E u \in OrderUsers : getOrders(u)

Init == GoInit /\ NodeInit /\ CartInit

GoNext ==
    \/ \E p \in Procs : AddToCart(p)
    \/ \E p \in Procs : CreateOrder(p)
    \/ \E p \in Procs, u \in Users : GetUserCart(p, u)
    \/ \E p \in Procs, u \in Users : GetUserOrders(p, u)
    \/ \E p \in Procs : GetOrders(p)
    \/ \E i \in ItemIDs, n \in Names, c \in Prices : CatalogUpdate(i, n, c)

Next == GoNext

Spec == Init /\ [][Next]_vars

\* the Go backend started on a database file in which user 1 has an open
\* cart without lines.  No handler leaves such a cart behind (AddToCart
\* commits a new cart together with its first line); the row is what another
\* writer of the file left there.
EmptyCartInit ==
    /\ GoTables({[ID |-> 1, UserID |-> 1, IsCheckedOut |-> FALSE]}, {}, {})
    /\ NodeInit
    /\ CartInit

EmptyCartSpec == EmptyCartInit /\ [][Next]_vars

NodeSpec == Init /\ [][NodeNext]_vars

CartSpec == Init /\ [][CartNext]_vars

CartRaceSpec == Init /\ [][CartRaceNext]_vars

OrderSpec == Init /\ [][OrderNext]_vars

AuthSpec == Init /\ [][AuthNext]_vars

GuestSpec == Init /\ [][GuestNext]_vars

SaveSpec == Init /\ [][SaveNext]_vars

\* checkout after catalog changes.  A behaviour of CheckoutSpec runs one of
\* the two backends, which share no state: the Go handlers with catalog
\* administration, or the Node shopper (addToCart, the Cart component's
\* checkout, createOrder) with catalog administration.
GoUntouched == reqs = 0 /\ catalogOps = 0

CheckoutNext ==
    \/ \E p \in Procs : NodeInit /\ AddToCart(p)
    \/ \E p \in Procs : NodeInit /\ CreateOrder(p)
    \/ \E i \in ItemIDs, n \in Names, c \in Prices : NodeInit /\ CatalogUpdate(i, n, c)
    \/ \E u \in SpaUsers, a \in ReqProductIDs, q \in NodeQtys :
          GoUntouched /\ NodeAddToCart(u, a, q)
    \/ \E a \in ProductIDs, c \in ProductPrices : GoUntouched /\ ProductUpdate(a, c)
    \/ \E u \in SpaUsers : GoUntouched /\ Mount(u)
    \/ \E u \in SpaUsers : GoUntouched /\ HandleCheckout(u)
    \/ \E r \in NodeUsers : GoUntouched /\ createOrder(r)
    \/ \E w \in pendingSaves : GoUntouched /\ ProductSaveLands(w)
    \/ \E w \in pendingSaves : GoUntouched /\ ProductSaveLost(w)

CheckoutSpec == Init /\ [][CheckoutNext]_vars

\* the Go backend started on a database in which another user, user 2, has an
\* open cart with a line and an order of a cart checked out before, and the
\* Node order handlers; a behaviour runs one of the two backends.  The lists
\* of all orders, GetOrders and getOrders, are the administrators' and are
\* left out of the Go side, where no user is one.
IsolationInit ==
    /\ GoTables({[ID |-> 1, UserID |-> 2, IsCheckedOut |-> TRUE],
                 [ID |-> 2, UserID |-> 2, IsCheckedOut |-> FALSE]},
                {[ID |-> 1, CartID |-> 1, ItemID |-> 1, Quantity |-> 1],
                 [ID |-> 2, CartID |-> 2, ItemID |-> 2, Quantity |-> 2]},
                {[ID |-> 1, UserID |-> 2, CartID |-> 1, Total |-> 10,
                  Status |-> "completed"]})
    /\ NodeInit
    /\ CartInit

IsolationNext ==
    \/ \E p \in Procs : orderResp.status = 0 /\ AddToCart(p)
    \/ \E p \in Procs : orderResp.status = 0 /\ CreateOrder(p)
    \/ \E p \in Procs, u \in Users : orderResp.status = 0 /\ GetUserCart(p, u)
    \/ \E p \in Procs, u \in Users : orderResp.status = 0 /\ GetUserOrders(p, u)
    \/ \E u \in OrderUsers, l \in OrderLineSets, b \in ClientPrices :
          GoUntouched /\ createOrder_NewOrder(u, l, b)
    \/ \E u \in OrderUsers, id \in 1..(MaxOrders + 1) :
          GoUntouched /\ getOrderById(u, id)
    \/ \E u \in OrderUsers, id \in 1..(MaxOrders + 1) :
          GoUntouched /\ updateOrderToPaid(u, id)
    \/ \E u \in OrderUsers, id \in 1..(MaxOrders + 1) :
          GoUntouched /\ updateOrderToDelivered(u, id)
    \/ \E u \in OrderUsers, id \in 1..(MaxOrders + 1), st \in validStatuses :
          GoUntouched /\ updateOrderStatus(u, id, st)
    \/ \E u \in OrderUsers : GoUntouched /\ getMyOrders(u)

IsolationSpec == IsolationInit /\ [][IsolationNext]_vars

\* ------------------------------------------------------------------ claims
CartRows(cis, cartID) == {ci \in cis : ci.CartID = cartID}
OrdersOf(cartID) == {o \in orders : o.CartID = cartID}

C2_OneOpenCartPerUser == \A u \in Users : Cardinality(OpenCarts(carts, u)) <= 1

\* two first AddToCart requests of one user both found no open cart; one of
\* them has inserted a cart, the other has still to insert
C2_Witness ==
    \E p, q \in Procs :
        /\ loc[p].tx.carts # {}
        /\ pc[q] = "a_create"
        /\ loc[p].user = loc[q].user

CreateOrderFails(p) == CreateOrder(p) /\ pc'[p] = "idle" /\ resp'.status # 201

\* C3: an Order exists for a cart if and only if the cart is checked out, in
\* every reachable state, and a CreateOrder that ends with an error changes
\* no committed row (the cart stays as it was, no Order appears).
C3_OrderIffCheckedOut ==
    /\ [](/\ \A c \in carts : c.IsCheckedOut <=> OrdersOf(c.ID) # {}
          /\ \A o \in orders : \E c \in carts : c.ID = o.CartID)
    /\ [][\A p \in Procs :
            CreateOrderFails(p) => UNCHANGED <<carts, cartItems, orders>>]_vars

\* a CreateOrder inserted its Order, failed to close the cart and answered
\* 500: the cart is still open with its lines and there is no Order
C3_Witness ==
    /\ resp.error = "failed to update cart status"
    /\ orders = {}
    /\ \E c \in carts : ~c.IsCheckedOut /\ CartRows(cartItems, c.ID) # {}

\* C4: the AddToCart requests that answered 200 for a (cart, item) pair leave
\* exactly one cart_items row for it, whose quantity is the sum of the
\* quantities they added.
C4_NoLostUpdate ==
    \A k \in DOMAIN acked :
        LET rows == {ci \in cartItems : ci.CartID = k[1] /\ ci.ItemID = k[2]}
        IN  /\ Cardinality(rows) = 1
            /\ \A ci \in rows : ci.Quantity = acked[k]

\* a line with an acknowledged quantity is being raised by two AddToCart
\* requests that both read it; one has written and is about to commit
C4_Witness ==
    \E p, q \in Procs :
        /\ pc[p] = "a_commit"
        /\ pc[q] = "a_write"
        /\ loc[p].found /\ loc[q].found
        /\ loc[p].cartItem = loc[q].cartItem
        /\ <<loc[p].cart.ID, loc[p].itemID>> \in DOMAIN acked

\* C5: once a cart is checked out its cart_items rows never change.
C5_CheckedOutFrozen ==
    [][\A c \in carts :
          c.IsCheckedOut => CartRows(cartItems', c.ID) = CartRows(cartItems, c.ID)]_vars

\* after a checkout the user has added to a cart again: the checked-out cart
\* and a later open cart both hold lines
C5_Witness ==
    \E c, d \in carts :
        /\ c.IsCheckedOut /\ ~d.IsCheckedOut /\ c.UserID = d.UserID
        /\ CartRows(cartItems, c.ID) # {}
        /\ CartRows(cartItems, d.ID) # {}

\* what CreateOrder answers to a request that starts now
CreateOrderLookup(u) ==
    IF OpenCarts(carts, u) = {} THEN "no active cart found" ELSE "cart found"

\* C6: after CreateOrder answered 201 for a user and until that user's next
\* successful AddToCart, GetUserCart answers with no cart and no items and
\* CreateOrder answers 'no active cart found'.
C6_ClosedAfterCheckout ==
    \A u \in Users :
        closedSince[u] =>
            /\ GetUserCartBody(u).cart_id = 0
            /\ GetUserCartBody(u).items = {}
            /\ CreateOrderLookup(u) = "no active cart found"

\* after a successful checkout a second CreateOrder was answered 'no active
\* cart found'
C6_Witness ==
    /\ resp.error = "no active cart found"
    /\ \E u \in Users : closedSince[u]

\* C7: the lines and the total GetUserOrders and GetOrders answer with for an
\* order are the ones the order had when its checkout was committed.
C7_OrderFrozen ==
    \A o \in orders :
        /\ OrderView(o).items = atCheckout[o.ID].items
        /\ OrderView(o).total = atCheckout[o.ID].total
        /\ AdminOrderView(o).items = atCheckout[o.ID].items
        /\ AdminOrderView(o).total = atCheckout[o.ID].total

RECURSIVE QuantityOrdered(_, _)
QuantityOrdered(os, a) ==
    IF os = {} THEN 0
    ELSE LET o == CHOOSE x \in os : TRUE
         IN  SeqSum([k \in 1..Len(o.orderItems) |->
                        IF o.orderItems[k].product = a
                        THEN o.orderItems[k].quantity ELSE 0])
             + QuantityOrdered(os \ {o}, a)

C10_NoPartialEffect ==
    [][/\ \A r \in NodeUsers :
            (nreq[r].pc = "map" /\ nreq'[r].pc = "idle") => nodeOrders' = nodeOrders
       /\ \A w \in pendingSaves :
            (w.rejected /\ w \notin pendingSaves') => products' = products]_vars

\* ------------------------------------------------- the totals of section 4.2

ShippingOf(subtotal) == IF subtotal > FreeShippingThreshold THEN 0 ELSE FlatShippingFee

\* subtotal + tax + shipping of a subtotal in cents
TotalFormula(subtotal) == subtotal + TaxOf(subtotal) + ShippingOf(subtotal)

\* the sum of price x quantity over the lines
Subtotal(lines) == SeqSum([k \in 1..Len(lines) |-> lines[k].price * lines[k].quantity])

\* C11: after every add, update-quantity and remove call the total stored on
\* a cart that has lines is subtotal + tax + shipping of those lines: the
\* total of the first cart implementation and the totalPrice of the second
C11_CartTotalByFormula ==
    /\ \A u \in SpaUsers :
          nodeCarts[u].items # <<>> =>
              nodeCarts[u].total = TotalFormula(Subtotal(nodeCarts[u].items))
    /\ cartDoc.items # <<>> => cartDoc.totalPrice = TotalFormula(Subtotal(cartDoc.items))

\* an amount of the Go part in cents
Cents(amount) == 100 * amount

\* C12: the Total of every Order the Go CreateOrder stored is subtotal + tax +
\* shipping of the lines and prices the cart had at checkout
C12_OrderTotalByFormula ==
    \A o \in orders :
        Cents(o.Total) = TotalFormula(Cents(LinesTotal(atCheckout[o.ID].items)))

LinesOfItem(cart, itemId) == {k \in 1..Len(cart.items) : cart.items[k].item = itemId}
QuantityOfItem(cart, itemId) ==
    SeqSum([k \in 1..Len(cart.items) |->
              IF cart.items[k].item = itemId THEN cart.items[k].quantity ELSE 0])

\* the same for a cart of the first implementation
LinesOfProduct(cart, productId) ==
    {k \in 1..Len(cart.items) : cart.items[k].product = productId}
QuantityOfProduct(cart, productId) ==
    SeqSum([k \in 1..Len(cart.items) |->
              IF cart.items[k].product = productId THEN cart.items[k].quantity ELSE 0])

\* C14: in a series of add-to-cart calls made one after another, every call
\* that succeeds leaves exactly one line for its item, and that line's
\* quantity is the quantity the cart held of the item before plus the
\* requested amount
C14_OneLinePerItem ==
    [][/\ \A i \in ReqStoreItemIDs, q \in BodyQtys :
            addItemToCart(i, q) /\ cartResp'.status = 201 =>
                /\ Cardinality(LinesOfItem(cartDoc', i)) = 1
                /\ QuantityOfItem(cartDoc', i) = QuantityOfItem(cartDoc, i) + q.n
       /\ \A u \in SpaUsers, a \in ReqProductIDs, q \in CartQtys :
            NodeAddToCart(u, a, q) /\ nodeResp'.status = 200 =>
                /\ Cardinality(LinesOfProduct(nodeCarts'[u], a)) = 1
                /\ QuantityOfProduct(nodeCarts'[u], a) =
                       QuantityOfProduct(nodeCarts[u], a) + q]_vars

\* C15: no stored cart line has a quantity below 1, and an update-quantity
\* request with a quantity of 0 or less for a line of the cart removes the
\* line, unless the database rejects the write
C15_QuantityAtLeastOne ==
    [][/\ \A k \in 1..Len(cartDoc'.items) : cartDoc'.items[k].quantity >= 1
       /\ \A u \in SpaUsers : \A k \in 1..Len(nodeCarts'[u].items) :
            nodeCarts'[u].items[k].quantity >= 1
       /\ \A i \in StoreItemIDs, q \in UpdateQtys :
            (/\ q <= 0
             /\ LinesOfItem(cartDoc, i) # {}
             /\ updateCartItem(i, q)
             /\ cartResp'.status # 500)
                => LinesOfItem(cartDoc', i) = {}
       /\ \A u \in SpaUsers, a \in ProductIDs, q \in CartQtys :
            (/\ q <= 0
             /\ LinesOfProduct(nodeCarts[u], a) # {}
             /\ NodeUpdateCartItem(u, a, q)
             /\ nodeResp'.message # "save failed")
                => LinesOfProduct(nodeCarts'[u], a) = {}]_vars

\* C16: a successful add-to-cart for an item that already has a line in the
\* cart raises the line's quantity and sets the line's price to the price
\* the item has in the catalog at that moment
C16_PriceRefreshedOnAdd ==
    [][/\ \A i \in StoreItemIDs, q \in BodyQtys :
            (/\ LinesOfItem(cartDoc, i) # {}
             /\ addItemToCart(i, q)
             /\ cartResp'.status = 201)
                => /\ QuantityOfItem(cartDoc', i) > QuantityOfItem(cartDoc, i)
                   /\ \A k \in LinesOfItem(cartDoc', i) :
                         cartDoc'.items[k].price = itemDocs[i].price
       /\ \A u \in SpaUsers, a \in ProductIDs, q \in {n \in CartQtys : n >= 1} :
            (/\ LinesOfProduct(nodeCarts[u], a) # {}
             /\ NodeAddToCart(u, a, q)
             /\ nodeResp'.status = 200)
                => /\ QuantityOfProduct(nodeCarts'[u], a) > QuantityOfProduct(nodeCarts[u], a)
                   /\ \A k \in LinesOfProduct(nodeCarts'[u], a) :
                         nodeCarts'[u].items[k].price = products[a].price]_vars

C18_RemoveAbsentIsNoOp ==
    [][/\ \A i \in ReqStoreItemIDs :
            (/\ cartDoc.exists
             /\ LinesOfItem(cartDoc, i) = {}
             /\ removeItemFromCart(i)
             /\ cartResp'.status # 500)
                => /\ cartResp'.status = 200
                   /\ cartDoc' = cartDoc
       /\ \A u \in SpaUsers, a \in ReqProductIDs :
            (/\ nodeCarts[u].exists
             /\ LinesOfProduct(nodeCarts[u], a) = {}
             /\ NodeRemoveFromCart(u, a)
             /\ nodeResp'.status # 500)
                => /\ nodeResp'.status = 200
                   /\ nodeCarts' = nodeCarts]_vars

\* C19: when CreateOrder reads the open cart of its user and the cart has no
\* line, the request ends there with 400 'cart is empty' (or with the 500 of a
\* failed read): no Order is stored and the tables carts and cart_items stay
\* as they are, so the cart is still open
C19_EmptyCartRejected ==
    [][\A p \in Procs, u \in Users :
          (/\ OpenCarts(carts, u) # {}
           /\ CartRows(cartItems, FirstByID(OpenCarts(carts, u)).ID) = {}
           /\ CreateOrder_Read(p, u))
              => /\ pc'[p] = "idle"
                 /\ \/ resp' = Response(400, "cart is empty")
                    \/ resp'.status = 500
                 /\ orders' = orders
                 /\ carts' = carts
                 /\ cartItems' = cartItems]_vars

\* CreateOrder has just refused the open cart without lines
C19_Witness ==
    /\ resp = Response(400, "cart is empty")
    /\ orders = {}
    /\ \E c \in OpenCarts(carts, 1) : CartRows(cartItems, c.ID) = {}
    /\ \A p \in Procs : pc[p] = "idle"

C21_NewCartAfterCheckout ==
    [][\A p \in Procs :
          AddToCart_Commit(p) /\ resp'.status = 200 =>
              /\ \A c \in carts' \ carts :
                    /\ c.ID \notin {d.ID : d \in carts}
                    /\ ~c.IsCheckedOut
                    /\ c.UserID = loc[p].user
                    /\ OpenCarts(carts, c.UserID) = {}
                    /\ \E r \in cartItems' :
                          /\ CartRows(cartItems', c.ID) = {r}
                          /\ r.ItemID = loc[p].itemID
                          /\ r.Quantity = loc[p].quantity
              /\ \A c \in carts :
                    c.IsCheckedOut =>
                        /\ c \in carts'
                        /\ CartRows(cartItems', c.ID) = CartRows(cartItems, c.ID)
              /\ orders' = orders
              /\ closedSince[loc[p].user] => carts' \ carts # {}]_vars

\* a user with a checked-out cart and its order has added an item again: the
\* item is the only line of a new open cart
C21_Witness ==
    \E c, d \in carts :
        /\ c.IsCheckedOut /\ ~d.IsCheckedOut /\ c.UserID = d.UserID /\ c.ID # d.ID
        /\ OrdersOf(c.ID) # {}
        /\ Cardinality(CartRows(cartItems, d.ID)) = 1
        /\ resp = Response(200, "item added to cart successfully")

\* C22: cart and checkout requests never write the catalog.  NodeSpec runs
\* only such requests (no catalog administration), so every product keeps
\* the price and the inventory it started with
C22_CatalogUntouched ==
    \A a \in ProductIDs :
        /\ products[a].price = SeedProducts[a].price
        /\ products[a].inventory = SeedProducts[a].inventory

\* C23: the step at which AddToCart finds that its item does not exist ends
\* the request with 404 'item not found' and leaves the tables carts,
\* cart_items and orders as they were: the cart the transaction inserted
\* before is gone with the transaction
C23_UnknownItemNoEffect ==
    [][\A p \in Procs :
          AddToCart_Item(p) /\ loc[p].itemID \notin DOMAIN items =>
              /\ resp' = Response(404, "item not found")
              /\ pc'[p] = "idle"
              /\ loc'[p].tx = EmptyTx
              /\ carts' = carts
              /\ cartItems' = cartItems
              /\ orders' = orders
              /\ acked' = acked]_vars

\* the request of a user without a cart was answered 'item not found' after
\* its transaction had inserted a cart, and the table carts is empty
C23_Witness ==
    /\ resp = Response(404, "item not found")
    /\ carts = {}
    /\ \A p \in Procs : pc[p] = "idle"

\* C24: the stored cart of the second implementation has totalItems equal to
\* the sum of its lines' quantities and totalPrice equal to the sum of its
\* lines' price x quantity
C24_TotalsMatchLines ==
    /\ cartDoc.totalItems =
          SeqSum([k \in 1..Len(cartDoc.items) |-> cartDoc.items[k].quantity])
    /\ cartDoc.totalPrice =
          SeqSum([k \in 1..Len(cartDoc.items) |->
                    cartDoc.items[k].price * cartDoc.items[k].quantity])

C26_DeliveredIffStatus ==
    \A id \in DOMAIN orderDocs :
        orderDocs[id].isDelivered <=> orderDocs[id].status = "delivered"

C28_OnlyLatestToken ==
    [][\A h \in {"", "Token ", "Bearer "}, n \in AuthNames \cup {"c"},
          e \in {0, 1, 30}, g \in BOOLEAN, t \in {0, 1, 30} :
          LET token == [GenerateToken(n, e) EXCEPT !.signed = g]
          IN  AuthMiddleware(h, token, t) =>
                 /\ users' = users
                 /\ authResp'.status = 200 =>
                       /\ h = "Bearer "
                       /\ n \in AuthNames
                       /\ token = issued[n]]_vars

\* C29: in the cart of a visitor without a token, updateCartItem for the
\* product of an item that addToCart stored sets that item's quantity, and
\* removeFromCart for it leaves a cart without the item
C29_GuestItemChangeable ==
    [][\A a \in {1, 2} :
          (\E k \in 1..Len(guestCart.items) : guestCart.items[k].productId = a) =>
              /\ \A q \in {1, 2, 3} :
                    guestUpdateCartItem(a, q) =>
                        \E k \in 1..Len(guestCart'.items) :
                            /\ guestCart'.items[k].productId = a
                            /\ guestCart'.items[k].quantity = q
              /\ guestRemoveFromCart(a) =>
                    \A k \in 1..Len(guestCart'.items) :
                        guestCart'.items[k].productId # a]_vars

\* C30: a save() of a valid first-implementation Cart whose items were
\* modified does not fail and does not pass through pre('save') a second
\* time
C30_SaveTerminatesAndPersists ==
    /\ saveRun.pc # "failed"
    /\ saveRun.depth <= 1

====
